---------------------------- MODULE Spec2Model ----------------------------
(***************************************************************************)
(* A model of the ledger engine of MyMoneyMan: the transaction type         *)
(* classifier, the quote resolution of assets and securities, the account   *)
(* balance, and the two transaction tables of an account (the table model   *)
(* with a draft row of models/transaction.py, and the proxy model over the  *)
(* SQLAlchemy session of models/proxy/transaction.py).                      *)
(*                                                                         *)
(* decimal.Decimal values are modelled as normalised fractions [n, d].      *)
(* Every value the model draws has a terminating decimal expansion of a few *)
(* digits, so Python's 28-digit decimal arithmetic is exact on them and the *)
(* fractions are the values the program computes.                           *)
(***************************************************************************)
EXTENDS Integers, Sequences, FiniteSets, TLC

VARIABLES
    classify_call,   \* the last call of TransactionType.fromAccountTypes
    ledger,          \* quote engine: the subtransaction rows held in storage
    quote_call,      \* quote engine: the last call of quote() and its result
    book,            \* balances: the subtransaction table, in insertion order
    book_call,       \* balances: the last operation on the table, and the
                     \* balances of the accounts when it was a query
    storage,         \* table model: the transaction table of the file, by id
    _account_id,     \* table model: the account whose transactions it shows
    _items,          \* table model: the items of the persisted transactions
    _draft_item,     \* table model: the draft, if one is open
    _draft_row,      \* table model: the row of the draft, else -1
    _insertable_item, \* table model: the item of the insertable row
    table_call,      \* table model: the last call and the value it returned
    table_clean,     \* table model: the rows and the storage as they were
                     \* when the open draft was started
    table_steps,     \* table model: the number of calls made
    db,              \* proxy model: the transactions the session has flushed
    identity_map,    \* proxy model: the Transaction objects of the session
    source_model,    \* proxy model: the rows of TransactionTableModel
    proxy_account,   \* proxy model: _account
    proxy_insertable, \* proxy model: _insertable
    proxy_items,     \* proxy model: _items
    proxy_call,      \* proxy model: the last call and the value it returned
    proxy_steps,     \* proxy model: the number of calls made
    tree_book,       \* account tree: the subtransaction table, dated by the
                     \* order of insertion
    tree_call,       \* account tree: the last cumulativeBalance() call and
                     \* the values it may return
    type_call,       \* transaction type: the last type() call, the object it
                     \* was made on and the value it returned
    swap_object,     \* swap: a Subtransaction as it was created, as it is
                     \* now, and the number of swap() calls made on it
    account_rows,    \* accounts: the rows of the account table as flushed
    account_objects, \* accounts: the attributes of the Account objects
    dialog,          \* accounts: the AccountEditDialog on screen
    dialog_call,     \* accounts: the last call and its outcome
    session_assets,  \* accounts: the currencies and the securities of the
                     \* session
    listed_accounts, \* deletion: the accounts AccountTableModel lists
    pending_deletes, \* deletion: the accounts the session is to delete
    stored_accounts, \* deletion: the rows of the account table
    stored_subtransactions,
                     \* deletion: the rows of the subtransaction table
    delete_call,     \* deletion: the last call and what it returned
    load_table,      \* tree load: the rows of AccountTableModel
    load_ledger,     \* tree load: the rows of the subtransaction table
    load_tree,       \* tree load: a reset() of the tree model of a view, and the items it has made
    edit_transaction,\* quantity edits: the Transaction object the table row and the split editor show
    edit_stored,     \* quantity edits: the transaction as stored
    edit_call        \* quantity edits: the last edit made

varsClassify == <<classify_call>>
varsQuote    == <<ledger, quote_call>>
varsBook     == <<book, book_call>>
varsTable    == <<storage, _account_id, _items, _draft_item, _draft_row,
                  _insertable_item, table_call, table_clean, table_steps>>
varsProxy    == <<db, identity_map, source_model, proxy_account,
                  proxy_insertable, proxy_items, proxy_call, proxy_steps>>
varsTree     == <<tree_book, tree_call>>
varsType     == <<type_call>>
varsSwap     == <<swap_object>>
varsDialog   == <<account_rows, account_objects, dialog, dialog_call,
                  session_assets>>
varsDelete   == <<listed_accounts, pending_deletes, stored_accounts, stored_subtransactions, delete_call>>
varsLoad     == <<load_table, load_ledger, load_tree>>
varsEdit     == <<edit_transaction, edit_stored, edit_call>>
vars         == <<varsClassify, varsQuote, varsBook, varsTable, varsProxy,
                  varsTree, varsType, varsSwap, varsDialog, varsDelete,
                  varsLoad, varsEdit>>

varsExceptClassify == <<varsQuote, varsBook, varsTable, varsProxy, varsTree,
                        varsType, varsSwap, varsDialog, varsDelete, varsLoad,
                        varsEdit>>
varsExceptQuote    == <<varsClassify, varsBook, varsTable, varsProxy,
                        varsTree, varsType, varsSwap, varsDialog, varsDelete,
                        varsLoad, varsEdit>>
varsExceptBook     == <<varsClassify, varsQuote, varsTable, varsProxy,
                        varsTree, varsType, varsSwap, varsDialog, varsDelete,
                        varsLoad, varsEdit>>
varsExceptTable    == <<varsClassify, varsQuote, varsBook, varsProxy,
                        varsTree, varsType, varsSwap, varsDialog, varsDelete,
                        varsLoad, varsEdit>>
varsExceptProxy    == <<varsClassify, varsQuote, varsBook, varsTable,
                        varsTree, varsType, varsSwap, varsDialog, varsDelete,
                        varsLoad, varsEdit>>
varsExceptTree     == <<varsClassify, varsQuote, varsBook, varsTable,
                        varsProxy, varsType, varsSwap, varsDialog,
                        varsDelete, varsLoad, varsEdit>>
varsExceptType     == <<varsClassify, varsQuote, varsBook, varsTable,
                        varsProxy, varsTree, varsSwap, varsDialog,
                        varsDelete, varsLoad, varsEdit>>
varsExceptSwap     == <<varsClassify, varsQuote, varsBook, varsTable,
                        varsProxy, varsTree, varsType, varsDialog,
                        varsDelete, varsLoad, varsEdit>>
varsExceptDialog   == <<varsClassify, varsQuote, varsBook, varsTable,
                        varsProxy, varsTree, varsType, varsSwap, varsDelete,
                        varsLoad, varsEdit>>
varsExceptDelete   == <<varsClassify, varsQuote, varsBook, varsTable,
                        varsProxy, varsTree, varsType, varsSwap, varsDialog,
                        varsLoad, varsEdit>>
varsExceptLoad     == <<varsClassify, varsQuote, varsBook, varsTable,
                        varsProxy, varsTree, varsType, varsSwap, varsDialog,
                        varsDelete, varsEdit>>
varsExceptEdit     == <<varsClassify, varsQuote, varsBook, varsTable,
                        varsProxy, varsTree, varsType, varsSwap, varsDialog,
                        varsDelete, varsLoad>>

-----------------------------------------------------------------------------
(* decimal.Decimal *)

RECURSIVE GCD(_, _)
GCD(a, b) == IF b = 0 THEN a ELSE GCD(b, a % b)

Abs(x) == IF x < 0 THEN -x ELSE x

\* The fraction n/d (d > 0) in lowest terms.
Frac(n, d) == LET g == GCD(Abs(n), d) IN [n |-> n \div g, d |-> d \div g]

Dec(i) == [n |-> i, d |-> 1]

\* Optional[Decimal]: Python's None.
None == [n |-> 0, d |-> 0]

\* decimal.DivisionByZero raised out of the call.
DivisionByZero == [n |-> 1, d |-> 0]

IsDecimal(x) == x.d > 0

DecAdd(x, y) == Frac(x.n * y.d + y.n * x.d, x.d * y.d)

DecNeg(x) == [n |-> -x.n, d |-> x.d]

DecSub(x, y) == DecAdd(x, DecNeg(y))

DecMul(x, y) == Frac(x.n * y.n, x.d * y.d)

\* x / y; DivisionByZero when y is 0.
DecDiv(x, y) ==
    IF y.n = 0 THEN DivisionByZero
    ELSE IF y.n > 0 THEN Frac(x.n * y.d, x.d * y.n)
    ELSE Frac(-(x.n * y.d), x.d * (-y.n))

DecAbs(x) == [n |-> Abs(x.n), d |-> x.d]

RECURSIVE Pow10(_)
Pow10(k) == IF k = 0 THEN 1 ELSE 10 * Pow10(k - 1)

\* round(x, precision) of a Decimal: quantize with ROUND_HALF_EVEN.
DecRound(x, precision) ==
    LET scale == Pow10(precision)
        num   == x.n * scale
        q     == num \div x.d
        r     == num % x.d
        up    == IF 2 * r < x.d THEN q
                 ELSE IF 2 * r > x.d THEN q + 1
                 ELSE IF q % 2 = 0 THEN q ELSE q + 1
    IN  Frac(up, scale)

-----------------------------------------------------------------------------
(* AccountType, AccountGroup *)

AccountTypes ==
    {"Asset", "Cash", "Bank", "Receivable", "Security", "Liability",
     "CreditCard", "Payable", "Income", "Expense", "Equity"}

AccountGroups == {"Asset", "Liability", "Income", "Expense", "Equity"}

fromAccountType(account_type) ==
    IF account_type \in {"Asset", "Cash", "Bank", "Receivable", "Security"}
        THEN "Asset"
    ELSE IF account_type \in {"Liability", "CreditCard", "Payable"}
        THEN "Liability"
    ELSE IF account_type = "Income" THEN "Income"
    ELSE IF account_type = "Expense" THEN "Expense"
    ELSE "Equity"

isInflow(group) == group \in {"Income", "Liability", "Equity"}

-----------------------------------------------------------------------------
(* TransactionType *)

TransactionTypes ==
    {"Opening", "Income", "Expense", "CashExpense", "OnDebitExpense",
     "OnCreditExpense", "Deposit", "Withdrawal", "CashTransfer",
     "BankTransfer", "AssetTransfer", "Investment", "Divestment",
     "ForeignExchange", "CreditCardPayment", "CreditUsage", "Repayment",
     "LiabilityTransfer", "Split", "Undefined"}

\* The outcome of reading an attribute the enum does not have
\* (TransactionType.CreditUsag): the call raises.
AttributeError == "AttributeError"

\* The branches shared by the two copies of the classifier; asset_security is
\* what the copy returns for Asset -> Security.
ClassifyWith(origin_type, target_type, asset_security) ==
    IF origin_type = "Equity" THEN "Opening"
    ELSE IF origin_type = "Income" THEN "Income"
    ELSE IF origin_type = "Asset" THEN
        IF target_type \in {"Cash", "Bank", "Asset"} THEN "AssetTransfer"
        ELSE IF target_type = "Security" THEN asset_security
        ELSE IF target_type = "Expense" THEN "Expense"
        ELSE IF target_type \in {"Liability", "CreditCard"} THEN "Repayment"
        ELSE "Undefined"
    ELSE IF origin_type = "Cash" THEN
        IF target_type = "Cash" THEN "CashTransfer"
        ELSE IF target_type = "Bank" THEN "Deposit"
        ELSE IF target_type = "Security" THEN "Investment"
        ELSE IF target_type = "Asset" THEN "AssetTransfer"
        ELSE IF target_type = "Expense" THEN "CashExpense"
        ELSE IF target_type \in {"Liability", "CreditCard"} THEN "Repayment"
        ELSE "Undefined"
    ELSE IF origin_type = "Bank" THEN
        IF target_type = "Bank" THEN "BankTransfer"
        ELSE IF target_type = "Cash" THEN "Withdrawal"
        ELSE IF target_type = "Security" THEN "Investment"
        ELSE IF target_type = "Asset" THEN "AssetTransfer"
        ELSE IF target_type = "Expense" THEN "OnDebitExpense"
        ELSE IF target_type \in {"Liability", "CreditCard"} THEN "Repayment"
        ELSE "Undefined"
    ELSE IF origin_type = "Security" THEN
        IF target_type \in {"Cash", "Bank", "Asset"} THEN "Divestment"
        ELSE IF target_type = "Security" THEN "AssetTransfer"
        ELSE "Undefined"
    ELSE IF origin_type \in {"Liability", "CreditCard"} THEN
        IF target_type \in {"Cash", "Bank", "Security", "Asset"} THEN
            IF origin_type = "Liability" THEN AttributeError
            ELSE "CreditCardPayment"
        ELSE IF target_type \in {"Liability", "CreditCard"}
            THEN "LiabilityTransfer"
        ELSE IF target_type = "Expense" THEN "OnCreditExpense"
        ELSE "Undefined"
    ELSE "Undefined"

\* models/sql/transaction.py
fromAccountTypes(origin_type, target_type) ==
    ClassifyWith(origin_type, target_type, "Investment")

\* models/transaction.py
fromAccountTypesTable(origin_type, target_type) ==
    ClassifyWith(origin_type, target_type, "Divestment")

NoCall == [impl |-> "none", origin_type |-> "none", target_type |-> "none",
           result |-> "none"]

CallFromAccountTypes ==
    /\ \E o \in AccountTypes, t \in AccountTypes :
          classify_call' = [impl |-> "sql", origin_type |-> o,
                            target_type |-> t,
                            result |-> fromAccountTypes(o, t)]
    /\ UNCHANGED varsExceptClassify

CallFromAccountTypesTable ==
    /\ \E o \in AccountTypes, t \in AccountTypes :
          classify_call' = [impl |-> "table", origin_type |-> o,
                            target_type |-> t,
                            result |-> fromAccountTypesTable(o, t)]
    /\ UNCHANGED varsExceptClassify

-----------------------------------------------------------------------------
(* Asset, Currency, Security, Account: the records the user has created *)

Assets == {"USD", "JPY", "AAPL"}

isCurrency(asset) == asset \in {"USD", "JPY"}

\* Asset.precision
AssetPrecision(asset) == IF asset = "USD" THEN 2 ELSE 0

\* Security.currency
SecurityCurrency(security) == "USD"

Accounts == {"Wallet", "Salary", "Groceries", "Loan", "Yen", "Broker",
             "Savings", "Bonus"}

\* Account.type
AccountTypeOf(account) ==
    CASE account = "Wallet"    -> "Cash"
      [] account = "Salary"    -> "Income"
      [] account = "Groceries" -> "Expense"
      [] account = "Loan"      -> "Liability"
      [] account = "Yen"       -> "Bank"
      [] account = "Broker"    -> "Security"
      [] account = "Savings"   -> "Bank"
      [] account = "Bonus"     -> "Income"

\* Account.asset
AccountAsset(account) ==
    CASE account = "Yen"    -> "JPY"
      [] account = "Broker" -> "AAPL"
      [] OTHER              -> "USD"

\* Account.group()
group(account) == fromAccountType(AccountTypeOf(account))

\* Account.parent: Yen is kept under Savings, Savings under Wallet and Bonus
\* under Salary; the other accounts are top-level.
AccountParent(account) ==
    CASE account = "Savings" -> "Wallet"
      [] account = "Yen"     -> "Savings"
      [] account = "Bonus"   -> "Salary"
      [] OTHER               -> "None"

-----------------------------------------------------------------------------
(* Quote resolution: Asset.quote, Security.quote *)

\* A row of subtransaction joined with its transaction:
\* [date, origin, target, quantity, quote_price].

\* The rows the SELECT of Asset.quote orders by date: target.asset is self,
\* origin.asset is other.
QuoteRows(rows, self, other) ==
    {r \in rows : AccountAsset(r.target) = self /\ AccountAsset(r.origin) = other}

\* ORDER BY t.date ASC LIMIT 1: a row of the earliest date.
EarliestRows(matching) ==
    {r \in matching : \A o \in matching : r.date <= o.date}

\* ORDER BY t.date DESC LIMIT 1: a row of the latest date; among rows of one
\* date the storage returns any one of them.
LatestRows(matching) ==
    {r \in matching : \A o \in matching : o.date <= r.date}

RECURSIVE quote(_, _, _, _)

\* Asset.quote whose fallback returns the reverse quote as it is.
AssetQuoteNotInverted(rows, self, other, two_way) ==
    IF self = other THEN {Dec(1)}
    ELSE LET matching == QuoteRows(rows, self, other) IN
         IF matching # {} THEN {r.quote_price : r \in LatestRows(matching)}
         ELSE IF two_way
              THEN quote(rows, other, self, FALSE)
              ELSE {None}

\* Asset.quote without the test `self is other`.
AssetQuoteWithoutIdentity(rows, self, other, two_way) ==
    LET matching == QuoteRows(rows, self, other) IN
    IF matching # {} THEN {r.quote_price : r \in LatestRows(matching)}
    ELSE IF two_way
         THEN {IF quote_price = None THEN None
               ELSE IF quote_price = DivisionByZero THEN DivisionByZero
               ELSE DecDiv(Dec(1), quote_price) :
                   quote_price \in quote(rows, other, self, FALSE)}
         ELSE {None}

\* Asset.quote: every value the call may return (None: no quote).
AssetQuote(rows, self, other, two_way) ==
    IF self = other THEN {Dec(1)}
    ELSE LET matching == QuoteRows(rows, self, other) IN
         IF matching # {} THEN {r.quote_price : r \in LatestRows(matching)}
         ELSE IF two_way
              THEN {IF quote_price = None THEN None
                    ELSE IF quote_price = DivisionByZero THEN DivisionByZero
                    ELSE DecDiv(Dec(1), quote_price) :
                        quote_price \in quote(rows, other, self, FALSE)}
              ELSE {None}

\* The two_way passed to currency.quote() for the exchange rate leg.
ExchangeRateTwoWay(two_way) == two_way

\* Security.quote without the fallback to the security's currency.
SecurityQuoteWithoutBridge(rows, self, other, two_way) ==
    AssetQuote(rows, self, other, two_way)

\* Security.quote: falls back to the security's currency as a bridge.
SecurityQuote(rows, self, other, two_way) ==
    UNION {
        IF direct # None THEN {direct}
        ELSE IF ~isCurrency(other) THEN {None}
        ELSE UNION {
            IF quote_price = None THEN {None}
            ELSE IF quote_price = DivisionByZero THEN {DivisionByZero}
            ELSE {IF exchange_rate = None THEN None
                  ELSE IF exchange_rate = DivisionByZero THEN DivisionByZero
                  ELSE DecRound(DecMul(quote_price, exchange_rate),
                                AssetPrecision(other)) :
                      exchange_rate \in
                          quote(rows, SecurityCurrency(self), other,
                                ExchangeRateTwoWay(two_way))} :
            quote_price \in
                AssetQuote(rows, self, SecurityCurrency(self), TRUE)} :
        direct \in AssetQuote(rows, self, other, two_way)}

\* asset.quote(other, two_way), dispatched on the class of the asset.
quote(rows, self, other, two_way) ==
    IF isCurrency(self) THEN AssetQuote(rows, self, other, two_way)
    ELSE SecurityQuote(rows, self, other, two_way)

-----------------------------------------------------------------------------
(* The quote engine over a growing history of subtransactions *)

MaxRecords == 3

MaxDate == 2

Dates == 1..MaxDate

Half == Frac(1, 2)

\* Prices whose inverse terminates: 0.5 and 2.5 (inverses 2 and 0.4).
Prices == {Half, Frac(5, 2)}

QuoteAccounts == {"Wallet", "Yen", "Broker"}

NoQuoteCall == [self |-> "none", other |-> "none", two_way |-> FALSE,
                result |-> None]

\* A transaction of one subtransaction is persisted.  quote() only reads the
\* ledger, so the history is recorded first and queried after: the recorded
\* result is always the result on the ledger of the state.
RecordSubtransaction ==
    /\ quote_call = NoQuoteCall
    /\ Cardinality(ledger) < MaxRecords
    /\ \E date \in Dates, origin \in QuoteAccounts, target \in QuoteAccounts,
          quote_price \in Prices :
          /\ origin # target
          /\ ledger' = ledger \cup
                 {[date |-> date, origin |-> origin, target |-> target,
                   quantity |-> Dec(1), quote_price |-> quote_price]}
    /\ UNCHANGED quote_call
    /\ UNCHANGED varsExceptQuote

CallQuote ==
    /\ quote_call = NoQuoteCall
    /\ \E self \in Assets, other \in Assets, two_way \in BOOLEAN :
          \E result \in quote(ledger, self, other, two_way) :
              quote_call' = [self |-> self, other |-> other,
                             two_way |-> two_way, result |-> result]
    /\ UNCHANGED ledger
    /\ UNCHANGED varsExceptQuote

-----------------------------------------------------------------------------
(* Account balance: Account.balance, AccountTreeProxyItem.balance *)

\* The loop of Account.balance over the rows of the UNION ALL.
RECURSIVE AccumulateBalance(_, _)
AccumulateBalance(results, balance) ==
    IF results = <<>> THEN balance
    ELSE LET quantity    == DecMul(Head(results).quantity, Dec(Head(results).side))
             quote_price == Head(results).quote_price
         IN AccumulateBalance(Tail(results),
                              DecAdd(balance, DecMul(quantity, quote_price)))

\* Account.balance() without the SELECT of the target side.
AccountBalanceOriginSide(rows, account) ==
    LET origins == SelectSeq(rows, LAMBDA r : r.origin = account)
        s1 == [i \in 1..Len(origins) |->
                  [quantity    |-> origins[i].quantity,
                   quote_price |-> origins[i].quote_price,
                   side        |-> -1]]
    IN AccumulateBalance(s1, Dec(0))

\* Account.balance() selecting the literal 1 as quote_price on both sides.
AccountBalanceUnitQuote(rows, account) ==
    LET origins == SelectSeq(rows, LAMBDA r : r.origin = account)
        targets == SelectSeq(rows, LAMBDA r : r.target = account)
        s1 == [i \in 1..Len(origins) |->
                  [quantity    |-> origins[i].quantity,
                   quote_price |-> Dec(1),
                   side        |-> -1]]
        s2 == [i \in 1..Len(targets) |->
                  [quantity    |-> targets[i].quantity,
                   quote_price |-> Dec(1),
                   side        |-> 1]]
    IN AccumulateBalance(s1 \o s2, Dec(0))

\* Account.balance(): the rows whose origin is the account, with their
\* quote_price and side -1, then the rows whose target is the account, with
\* the literal quote_price 1 and side 1.
AccountBalance(rows, account) ==
    LET origins == SelectSeq(rows, LAMBDA r : r.origin = account)
        targets == SelectSeq(rows, LAMBDA r : r.target = account)
        s1 == [i \in 1..Len(origins) |->
                  [quantity    |-> origins[i].quantity,
                   quote_price |-> origins[i].quote_price,
                   side        |-> -1]]
        s2 == [i \in 1..Len(targets) |->
                  [quantity    |-> targets[i].quantity,
                   quote_price |-> Dec(1),
                   side        |-> 1]]
    IN AccumulateBalance(s1 \o s2, Dec(0))

\* AccountTreeProxyItem.balance() on an item that has not cached a balance.
DisplayedBalance(rows, account) ==
    LET _balance == AccountBalance(rows, account) IN
    IF _balance # Dec(0) /\ group(account) \in {"Liability", "Income", "Equity"}
    THEN DecMul(_balance, Dec(-1))
    ELSE _balance

MaxBookRows == 2

BookAccounts == {"Wallet", "Salary", "Groceries", "Yen"}

Quantities == {Dec(50), Dec(500), Dec(1000)}

\* The quote prices a subtransaction between two accounts is recorded with:
\* 1 when both hold the same asset.
QuotePricesOf(origin, target) ==
    IF AccountAsset(origin) = AccountAsset(target) THEN {Dec(1)} ELSE Prices

NoBalances == [account \in BookAccounts |-> None]

NoBookCall == [op |-> "none", after |-> "none", balances |-> NoBalances]

\* AlchemicalTableModel.insert of a transaction of one subtransaction.
InsertTransaction ==
    /\ Len(book) < MaxBookRows
    /\ \E origin \in BookAccounts, target \in BookAccounts,
          quantity \in Quantities :
          /\ origin # target
          /\ \E quote_price \in QuotePricesOf(origin, target) :
                book' = Append(book, [origin |-> origin, target |-> target,
                                      quantity |-> quantity,
                                      quote_price |-> quote_price])
    /\ book_call' = [op |-> "insert", after |-> book_call.op,
                     balances |-> NoBalances]
    /\ UNCHANGED varsExceptBook

\* AlchemicalTableModel.delete of a transaction: its subtransaction goes with
\* it (cascade='all, delete-orphan').
DeleteTransaction ==
    /\ \E row \in 1..Len(book) :
          book' = SubSeq(book, 1, row - 1) \o SubSeq(book, row + 1, Len(book))
    /\ book_call' = [op |-> "delete", after |-> book_call.op,
                     balances |-> NoBalances]
    /\ UNCHANGED varsExceptBook

\* The account tree asks every account for its balance.
QueryBalances ==
    /\ book_call.op \in {"insert", "delete"}
    /\ book_call' = [op |-> "balance", after |-> book_call.op,
                     balances |-> [account \in BookAccounts |->
                                      AccountBalance(book, account)]]
    /\ UNCHANGED book
    /\ UNCHANGED varsExceptBook

-----------------------------------------------------------------------------
(* The account tree: AccountTreeProxyItem.cumulativeBalance *)

\* No reporting currency: cumulativeBalance() as the Balance column calls it.
NoCurrency == "None"

\* The item of an account without child items.
NoChildren(account) == {}

\* GroupingProxyItem.children of the item of an account.
children(account) == {child \in Accounts : AccountParent(child) = account}

RECURSIVE CumulativeWith(_, _, _, _)
RECURSIVE AddChildren(_, _, _, _, _)

\* The loop over children(): every sum the loop may end with.
AddChildren(rows, items, currency, skip, balances) ==
    IF items = {} THEN balances
    ELSE LET child == CHOOSE item \in items : TRUE
         IN AddChildren(rows, items \ {child}, currency, skip,
                {DecAdd(balance, cumulative) :
                     balance \in balances,
                     cumulative \in CumulativeWith(rows, child, currency, skip)})

\* The body of cumulativeBalance; skip is whether an account without a quote
\* is left out of the sum.
CumulativeWith(rows, account, currency, skip) ==
    LET balance == DisplayedBalance(rows, account)
        own == IF balance # Dec(0) /\ currency # NoCurrency
               THEN {IF quote_price # None THEN DecMul(balance, quote_price)
                     ELSE IF skip THEN Dec(0)
                     ELSE balance :
                         quote_price \in
                             quote({rows[i] : i \in DOMAIN rows},
                                   AccountAsset(account), currency, TRUE)}
               ELSE {balance}
    IN AddChildren(rows, children(account),
                   IF currency # NoCurrency THEN currency
                   ELSE AccountAsset(account),
                   skip, own)

\* AccountTreeProxyItem.cumulativeBalance on items that have not cached a
\* balance: every value the call may return.
cumulativeBalance(rows, account, currency) ==
    CumulativeWith(rows, account, currency, FALSE)

MaxTreeRows == 2

NoTreeCall == [account |-> "none", currency |-> NoCurrency, balances |-> {}]

\* AlchemicalTableModel.insert of a transaction of one subtransaction, dated
\* after the transactions already stored.
InsertTreeTransaction ==
    /\ tree_call = NoTreeCall
    /\ Len(tree_book) < MaxTreeRows
    /\ \E origin \in {"Salary", "Bonus", "Wallet"},
          target \in {"Wallet", "Savings", "Yen"},
          quantity \in {Dec(50), Dec(500)} :
          /\ origin # target
          /\ \E quote_price \in QuotePricesOf(origin, target) :
                tree_book' = Append(tree_book,
                    [date |-> Len(tree_book) + 1,
                     origin |-> origin, target |-> target,
                     quantity |-> quantity, quote_price |-> quote_price])
    /\ UNCHANGED tree_call
    /\ UNCHANGED varsExceptTree

\* The Balance column (no currency) or the panel (its currency) asks an item
\* for its cumulative balance.
CallCumulativeBalance ==
    /\ tree_call = NoTreeCall
    /\ \E account \in {"Wallet", "Savings", "Yen", "Salary", "Bonus"},
          currency \in {"USD", "JPY", NoCurrency} :
          tree_call' = [account |-> account, currency |-> currency,
                        balances |-> cumulativeBalance(tree_book, account,
                                                       currency)]
    /\ UNCHANGED tree_book
    /\ UNCHANGED varsExceptTree

-----------------------------------------------------------------------------
(* The transaction table with a draft row: models/transaction.py *)

DecLess(x, y) == x.n * y.d < y.n * x.d

\* models.sql.Decimal(8).process_bind_param: the integer stored in SQLite.
process_bind_param(value) ==
    LET scaled == DecMul(DecRound(value, 8), Dec(Pow10(8)))
    IN scaled.n \div scaled.d

\* models.sql.Decimal(8).process_result_value: the Decimal read back.
process_result_value(value) == DecRound(Frac(value, Pow10(8)), 8)

\* No account: the id 0 of the placeholder, None.
NoAccount == "None"

\* datetime.datetime.now(): the clock reads one instant throughout a run.
Now == 1

NoSubId == <<0, 0>>

\* SubtransactionItem (the account names it carries are left out).
SubtransactionItem(id, comment, quantity, origin, o_type, target, t_type) ==
    [id |-> id, comment |-> comment, quantity |-> quantity,
     origin |-> origin, origin_type |-> o_type,
     target |-> target, target_type |-> t_type]

\* The placeholder ... that _InsertableItem passes for both account types.
Ellipsis == "Ellipsis"

\* TransactionTableItem.
TransactionTableItem(id, date, balance, sub_items) ==
    [id |-> id, date |-> date, balance |-> balance, subs |-> sub_items]

NoItem == TransactionTableItem(-1, 0, None, <<>>)

\* _InsertableItem(reference_account_id).
InsertableItem(reference_account_id) ==
    TransactionTableItem(0, Now, Dec(0),
        <<SubtransactionItem(NoSubId, "", Dec(0),
                             reference_account_id, Ellipsis,
                             NoAccount, Ellipsis)>>)

\* SubtransactionItem.relativeQuantity.  The ValueError of the last branch is
\* never raised: the reference account is on one side of every item.
ItemRelativeQuantity(sub_item, reference_account_id) ==
    IF reference_account_id = sub_item.origin THEN DecNeg(sub_item.quantity)
    ELSE IF reference_account_id = sub_item.target THEN sub_item.quantity
    ELSE None

RECURSIVE SumRelativeQuantities(_, _)
SumRelativeQuantities(sub_items, reference_account_id) ==
    IF sub_items = <<>> THEN Dec(0)
    ELSE DecAdd(ItemRelativeQuantity(Head(sub_items), reference_account_id),
                SumRelativeQuantities(Tail(sub_items), reference_account_id))

\* TransactionTableItem.subtransactionTotal.
subtransactionTotal(item, reference_account_id) ==
    SumRelativeQuantities(item.subs, reference_account_id)

\* TransactionTableItem.isSplit.
ItemIsSplit(item) == Len(item.subs) > 1

\* TransactionTableItem.type.
ItemType(item) ==
    IF ItemIsSplit(item) THEN "Split"
    ELSE LET sub_item == item.subs[1]
         IN fromAccountTypesTable(sub_item.origin_type, sub_item.target_type)

\* The Inflow branch of setEditRoleData.
InflowEdit(item, reference_account_id, edit_value) ==
    LET sub_item == item.subs[1]
        value    == DecRound(edit_value, 8)
        relative == ItemRelativeQuantity(sub_item, reference_account_id)
        current  == IF relative.n >= 0 THEN value ELSE DecAdd(relative, value)
        swapped  == relative.n < 0 /\ current.n > 0
        moved    == IF swapped
                    THEN [sub_item EXCEPT
                             !.origin      = sub_item.target,
                             !.origin_type = sub_item.target_type,
                             !.target      = reference_account_id,
                             !.target_type = sub_item.origin_type]
                    ELSE sub_item
        quantity == DecRound(DecAbs(current), 8)
    IN IF quantity = sub_item.quantity
       THEN [item |-> [item EXCEPT !.subs[1] = moved], result |-> FALSE]
       ELSE [item |-> [item EXCEPT !.subs[1] =
                          [moved EXCEPT !.quantity = quantity]],
             result |-> TRUE]

\* The Outflow branch of setEditRoleData: it sets the quantity and falls
\* through to the final return False.
OutflowEdit(item, reference_account_id, edit_value) ==
    LET sub_item == item.subs[1]
        value    == DecRound(DecNeg(edit_value), 8)
        relative == ItemRelativeQuantity(sub_item, reference_account_id)
        current  == IF relative.n <= 0 THEN value ELSE DecAdd(relative, value)
        swapped  == relative.n > 0 /\ current.n < 0
        moved    == IF swapped
                    THEN [sub_item EXCEPT
                             !.target      = sub_item.origin,
                             !.target_type = sub_item.origin_type,
                             !.origin      = reference_account_id,
                             !.origin_type = sub_item.target_type]
                    ELSE sub_item
        quantity == DecRound(DecAbs(current), 8)
    IN IF quantity = sub_item.quantity
       THEN [item |-> [item EXCEPT !.subs[1] = moved], result |-> FALSE]
       ELSE [item |-> [item EXCEPT !.subs[1] =
                          [moved EXCEPT !.quantity = quantity]],
             result |-> FALSE]

\* TransactionTableItem.setEditRoleData: the item after the call and the
\* value returned.
setEditRoleData(item, reference_account_id, column, value) ==
    IF ItemIsSplit(item) THEN [item |-> item, result |-> FALSE]
    ELSE IF column = "Date"
    THEN IF item.date = value THEN [item |-> item, result |-> FALSE]
         ELSE [item |-> [item EXCEPT !.date = value], result |-> TRUE]
    ELSE IF column = "Comment"
    THEN IF item.subs[1].comment = value
         THEN [item |-> item, result |-> FALSE]
         ELSE [item |-> [item EXCEPT !.subs[1].comment = value],
               result |-> TRUE]
    ELSE IF column = "Transference"
    THEN IF reference_account_id = item.subs[1].origin
         THEN IF item.subs[1].target = value
              THEN [item |-> item, result |-> FALSE]
              ELSE [item |-> [item EXCEPT !.subs[1].target = value],
                    result |-> TRUE]
         ELSE IF item.subs[1].origin = value
              THEN [item |-> item, result |-> FALSE]
              ELSE [item |-> [item EXCEPT !.subs[1].origin = value],
                    result |-> TRUE]
    ELSE IF column = "Inflow"
    THEN InflowEdit(item, reference_account_id, value)
    ELSE IF column = "Outflow"
    THEN OutflowEdit(item, reference_account_id, value)
    ELSE [item |-> item, result |-> FALSE]

\* The rows selectAccount reads of one transaction: the subtransactions
\* whose origin or target is the account, joined with both accounts.
RECURSIVE SelectedSubItems(_, _, _, _)
SelectedSubItems(transaction_id, subs, k, account_id) ==
    IF k > Len(subs) THEN <<>>
    ELSE LET s == subs[k] IN
         IF /\ s.origin \in Accounts
            /\ s.target \in Accounts
            /\ (s.origin = account_id \/ s.target = account_id)
         THEN <<SubtransactionItem(<<transaction_id, k>>, s.comment,
                                   process_result_value(s.quantity),
                                   s.origin, AccountTypeOf(s.origin),
                                   s.target, AccountTypeOf(s.target))>>
              \o SelectedSubItems(transaction_id, subs, k + 1, account_id)
         ELSE SelectedSubItems(transaction_id, subs, k + 1, account_id)

\* The inner loop of selectAccount over the subtransaction items of one
\* transaction.
RECURSIVE AddQuantities(_, _, _)
AddQuantities(sub_items, account_id, balance) ==
    IF sub_items = <<>> THEN balance
    ELSE AddQuantities(Tail(sub_items), account_id,
             IF account_id = Head(sub_items).origin
             THEN DecSub(balance, Head(sub_items).quantity)
             ELSE DecAdd(balance, Head(sub_items).quantity))

\* The outer loop of selectAccount over the transactions, by id: the running
\* balance is reversed at every transaction of an account of an inflow group.
RECURSIVE SelectedItems(_, _, _, _)
SelectedItems(stored, transaction_id, account_id, balance) ==
    IF transaction_id > Len(stored) THEN <<>>
    ELSE LET transaction == stored[transaction_id]
             sub_items == SelectedSubItems(transaction_id, transaction.subs,
                                           1, account_id)
         IN IF sub_items = <<>>
            THEN SelectedItems(stored, transaction_id + 1, account_id, balance)
            ELSE LET summed   == AddQuantities(sub_items, account_id, balance)
                     reversed ==
                         IF group(account_id) \in {"Equity", "Income", "Liability"}
                         THEN DecMul(summed, Dec(-1))
                         ELSE summed
                 IN <<TransactionTableItem(transaction_id, transaction.date,
                                           reversed, sub_items)>>
                    \o SelectedItems(stored, transaction_id + 1, account_id,
                                     reversed)

\* The loop of updateBalances from start_row (rows are counted from 1).
RECURSIVE UpdatedBalances(_, _, _, _)
UpdatedBalances(items, row, account_id, start_balance) ==
    IF row > Len(items) THEN items
    ELSE LET balance == DecAdd(start_balance,
                               subtransactionTotal(items[row], account_id))
         IN UpdatedBalances([items EXCEPT ![row].balance = balance],
                            row + 1, account_id, balance)

\* TransactionTableModel.updateBalances.
updateBalances(items, start_row, account_id) ==
    UpdatedBalances(items, start_row, account_id,
                    IF start_row = 1 THEN Dec(0)
                    ELSE items[start_row - 1].balance)

\* The Subtransaction rows persistDraft adds for a new transaction.
StoredSubs(sub_items) ==
    [k \in 1..Len(sub_items) |->
        [comment  |-> sub_items[k].comment,
         origin   |-> sub_items[k].origin,
         target   |-> sub_items[k].target,
         quantity |-> process_bind_param(sub_items[k].quantity)]]

\* The UPDATE statements of persistDraft: the transaction of the item's id
\* and the subtransaction of each sub item's id, where they exist.
RECURSIVE UpdatedSubs(_, _, _)
UpdatedSubs(stored, sub_items, k) ==
    IF k > Len(sub_items) THEN stored
    ELSE LET id == sub_items[k].id IN
         IF id[1] \in 1..Len(stored) /\ id[2] \in 1..Len(stored[id[1]].subs)
         THEN UpdatedSubs(
                  [stored EXCEPT ![id[1]].subs[id[2]] =
                      [comment  |-> sub_items[k].comment,
                       origin   |-> sub_items[k].origin,
                       target   |-> sub_items[k].target,
                       quantity |-> process_bind_param(sub_items[k].quantity)]],
                  sub_items, k + 1)
         ELSE UpdatedSubs(stored, sub_items, k + 1)

UpdatedStorage(stored, item) ==
    UpdatedSubs(IF item.id \in 1..Len(stored)
                THEN [stored EXCEPT ![item.id].date = item.date]
                ELSE stored,
                item.subs, 1)


\* A stored transaction of one subtransaction and a comment-less
\* subtransaction as the subtransaction table holds it.
StoredSub(origin, target, quantity) ==
    [comment |-> "", origin |-> origin, target |-> target,
     quantity |-> process_bind_param(Dec(quantity))]

StoredTransaction(date, subs) == [date |-> date, subs |-> subs]

\* The ledger files a run may open.
Files ==
    {<<StoredTransaction(1, <<StoredSub("Salary", "Wallet", 10)>>)>>,
     <<StoredTransaction(1, <<StoredSub("Salary", "Wallet", 10)>>),
       StoredTransaction(2, <<StoredSub("Salary", "Wallet", 5)>>)>>,
     <<StoredTransaction(1, <<StoredSub("Salary", "Wallet", 10)>>),
       StoredTransaction(2, <<StoredSub("Wallet", "Groceries", 5),
                              StoredSub("Wallet", "Loan", 5)>>)>>}

MaxStored == 3
MaxTableSteps == 5
MaxQuantity == 10

\* The quantities of an item stay within the bound.
ItemWithinMaxQuantity(item) ==
    \A k \in 1..Len(item.subs) :
        DecLess(item.subs[k].quantity, Dec(MaxQuantity + 1))

\* The accounts whose table is shown, and the accounts of the Transference
\* editor.
SelectableAccounts == {"Wallet", "Salary"}
TransferenceAccounts == {"Wallet", "Groceries"}

Columns == {"Date", "Comment", "Transference", "Inflow", "Outflow"}

\* The values the editors of a column hand to setData.
EditValues(column) ==
    CASE column = "Date"         -> Dates
      [] column = "Comment"      -> {"rent"}
      [] column = "Transference" -> TransferenceAccounts
      [] OTHER                   -> {Dec(5), Dec(-5)}

\* _draft_item: None, a copy of an item, or the insertable item itself.
NoDraft == [ref |-> "None", item |-> NoItem]

hasDraft == _draft_item.ref # "None"

\* The item _draft_item refers to.
DraftItem ==
    IF _draft_item.ref = "_insertable_item" THEN _insertable_item
    ELSE _draft_item.item

NoSnapshot == [items |-> <<>>, insertable |-> NoItem, storage |-> <<>>,
               taken |-> FALSE]

NoTableCall == [op |-> "none", result |-> FALSE]

\* models.sql.set_engine: a ledger file is opened.
set_engine ==
    /\ storage = <<>>
    /\ _account_id = NoAccount
    /\ storage' \in Files
    /\ UNCHANGED <<_account_id, _items, _draft_item, _draft_row,
                   _insertable_item, table_call, table_clean>>
    /\ table_steps < MaxTableSteps
    /\ table_steps' = table_steps + 1
    /\ UNCHANGED varsExceptTable

\* TransactionTableModel.selectAccount.
selectAccount ==
    /\ \E account_id \in SelectableAccounts :
          /\ _account_id' = account_id
          /\ _items' = SelectedItems(storage, 1, account_id, Dec(0))
          /\ _insertable_item' = InsertableItem(account_id)
    /\ _draft_item' = NoDraft
    /\ _draft_row' = -1
    /\ table_call' = [op |-> "selectAccount", result |-> TRUE]
    /\ table_clean' = NoSnapshot
    /\ UNCHANGED storage
    /\ table_steps < MaxTableSteps
    /\ table_steps' = table_steps + 1
    /\ UNCHANGED varsExceptTable

\* TransactionTableModel.setData (rows are counted from 1; the row after the
\* last item is the insertable one).
SetDataOn(row, column, value) ==
    /\ _account_id # NoAccount
    /\    LET on_insertable == row > Len(_items)
              is_new_draft  == ~hasDraft
              ref   == IF hasDraft THEN _draft_item.ref
                       ELSE IF on_insertable THEN "_insertable_item"
                       ELSE "copy"
              draft == IF hasDraft THEN DraftItem
                       ELSE IF on_insertable THEN _insertable_item
                       ELSE _items[row]
              edit  == setEditRoleData(draft, _account_id, column, value)
          IN /\ ItemWithinMaxQuantity(edit.item)
             /\ IF hasDraft /\ _draft_row # row
                THEN /\ table_call' = [op |-> "setData", result |-> FALSE]
                     /\ UNCHANGED <<_draft_item, _draft_row, _insertable_item,
                                    table_clean>>
                ELSE /\ table_call' = [op |-> "setData", result |-> edit.result]
                     /\ _insertable_item' =
                            IF ref = "_insertable_item" THEN edit.item
                            ELSE _insertable_item
                     /\ IF ~edit.result /\ is_new_draft
                        THEN /\ _draft_item' = NoDraft
                             /\ _draft_row' = -1
                        ELSE /\ _draft_item' =
                                   [ref |-> ref,
                                    item |-> IF ref = "copy" THEN edit.item
                                             ELSE NoItem]
                             /\ _draft_row' = row
                     /\ table_clean' =
                            IF is_new_draft
                            THEN [items |-> _items,
                                  insertable |-> _insertable_item,
                                  storage |-> storage, taken |-> TRUE]
                            ELSE table_clean
    /\ UNCHANGED <<storage, _account_id, _items>>
    /\ table_steps < MaxTableSteps
    /\ table_steps' = table_steps + 1
    /\ UNCHANGED varsExceptTable

\* An editor of a cell of the table commits a value.
setData ==
    \E row \in 1..(Len(_items) + 1), column \in Columns :
        \E value \in EditValues(column) : SetDataOn(row, column, value)

\* TransactionTableModel.persistDraft.
persistDraft ==
    /\ IF ~hasDraft
       THEN /\ table_call' = [op |-> "persistDraft", result |-> FALSE]
            /\ UNCHANGED <<storage, _items, _draft_item, _draft_row,
                           _insertable_item, table_clean>>
       ELSE LET item      == DraftItem
                is_insert == _draft_item.ref = "_insertable_item"
                row       == _draft_row
            IN /\ is_insert => Len(storage) < MaxStored
               /\ storage' =
                      IF is_insert
                      THEN Append(storage,
                               StoredTransaction(item.date,
                                                 StoredSubs(item.subs)))
                      ELSE UpdatedStorage(storage, item)
               /\ _items' =
                      updateBalances(
                          IF is_insert THEN Append(_items, item)
                          ELSE [_items EXCEPT ![row] = item],
                          row, _account_id)
               /\ _insertable_item' =
                      IF is_insert THEN InsertableItem(_account_id)
                      ELSE _insertable_item
               /\ _draft_item' = NoDraft
               /\ _draft_row' = -1
               /\ table_call' = [op |-> "persistDraft", result |-> TRUE]
               /\ table_clean' = NoSnapshot
    /\ _account_id # NoAccount
    /\ UNCHANGED _account_id
    /\ table_steps < MaxTableSteps
    /\ table_steps' = table_steps + 1
    /\ UNCHANGED varsExceptTable

\* TransactionTableModel.discardDraft.
discardDraft ==
    /\ _account_id # NoAccount
    /\ IF ~hasDraft
       THEN /\ table_call' = [op |-> "discardDraft", result |-> FALSE]
            /\ UNCHANGED <<_draft_item, _draft_row, _insertable_item>>
       ELSE /\ _insertable_item' =
                   IF _draft_item.ref = "_insertable_item"
                   THEN InsertableItem(_account_id)
                   ELSE _insertable_item
            /\ _draft_item' = NoDraft
            /\ _draft_row' = -1
            /\ table_call' = [op |-> "discardDraft", result |-> TRUE]
    /\ UNCHANGED <<storage, _account_id, _items, table_clean>>
    /\ table_steps < MaxTableSteps
    /\ table_steps' = table_steps + 1
    /\ UNCHANGED varsExceptTable

-----------------------------------------------------------------------------
(* The proxy model over the session: models/proxy/transaction.py *)

\* Subtransaction(...) and Transaction(...) as the session holds them.
Subtransaction(comment, origin, target, quantity, quote_price) ==
    [comment |-> comment, origin |-> origin, target |-> target,
     quantity |-> quantity, quote_price |-> quote_price]

Transaction(date, subtransactions) ==
    [date |-> date, subtransactions |-> subtransactions]

\* No Transaction object under an id.
NoTransaction == Transaction(0, <<>>)

\* Transaction(): the default date is the instant the class was defined.
NewTransaction == Transaction(Now, <<>>)

\* A Transaction that never reports itself as split.
NeverSplit(transaction) == FALSE

\* Transaction.isSplit.
isSplit(transaction) == Len(transaction.subtransactions) > 1

\* Transaction.type.
type(transaction) ==
    IF isSplit(transaction) THEN "Split"
    ELSE IF Len(transaction.subtransactions) = 1
        THEN LET sub == transaction.subtransactions[1]
             IN IF sub.origin \in Accounts /\ sub.target \in Accounts
                THEN fromAccountTypes(AccountTypeOf(sub.origin),
                                      AccountTypeOf(sub.target))
                ELSE "Undefined"
    ELSE "Undefined"

\* A swap that exchanges the accounts and leaves the quote price alone.
SwapAccountsOnly(sub) ==
    [sub EXCEPT !.origin = sub.target, !.target = sub.origin]

\* A swap that exchanges the accounts and resets the quote price to 1.
SwapDroppingPrice(sub) ==
    [sub EXCEPT !.origin = sub.target, !.target = sub.origin,
                !.quote_price = Dec(1)]

\* Subtransaction.swap.
swap(sub) ==
    IF sub.origin = sub.target THEN sub
    ELSE LET swapped == [sub EXCEPT !.origin = sub.target,
                                    !.target = sub.origin]
         IN IF sub.quote_price # Dec(1)
            THEN [swapped EXCEPT
                     !.quantity    = DecMul(sub.quantity, sub.quote_price),
                     !.quote_price = DecDiv(Dec(1), sub.quote_price)]
            ELSE swapped

\* account.precision or account.asset.precision: accounts are created
\* without a precision of their own.
AccountPrecision(account) == AssetPrecision(AccountAsset(account))

\* The loop of Transaction.relativeQuantity.
RECURSIVE SumMovements(_, _, _)
SumMovements(subs, account, quantity) ==
    IF subs = <<>> THEN quantity
    ELSE LET sub == Head(subs)
             out == IF account = sub.origin
                    THEN DecSub(quantity, DecMul(sub.quantity, sub.quote_price))
                    ELSE quantity
             in  == IF account = sub.target
                    THEN DecAdd(out, sub.quantity)
                    ELSE out
         IN SumMovements(Tail(subs), account, in)

\* Transaction.relativeQuantity.
relativeQuantity(transaction, account) ==
    DecRound(SumMovements(transaction.subtransactions, account, Dec(0)),
             AccountPrecision(account))

\* TransactionProxyItem.subtransaction: the transaction after the call, with
\* the placeholder the call attaches to a transaction without
\* subtransactions; the subtransaction returned is its first.
subtransaction(transaction, account) ==
    IF transaction.subtransactions # <<>> THEN transaction
    ELSE [transaction EXCEPT !.subtransactions =
             <<Subtransaction("", account, NoAccount, Dec(0), Dec(1))>>]

\* TransactionProxyDateItem.setData.
DateSetData(transaction, value) ==
    IF transaction.date = value
    THEN [transaction |-> transaction, result |-> FALSE]
    ELSE [transaction |-> [transaction EXCEPT !.date = value],
          result |-> TRUE]

\* TransactionProxyCommentItem.setData.
CommentSetData(transaction, account, value) ==
    LET held == subtransaction(transaction, account) IN
    IF held.subtransactions[1].comment = value
    THEN [transaction |-> held, result |-> FALSE]
    ELSE [transaction |-> [held EXCEPT !.subtransactions[1].comment = value],
          result |-> TRUE]

\* TransactionProxyTransferenceItem.setData.
TransferenceSetData(transaction, account, value) ==
    LET held == subtransaction(transaction, account) IN
    [transaction |->
        IF account = held.subtransactions[1].origin
        THEN [held EXCEPT !.subtransactions[1].target = value]
        ELSE [held EXCEPT !.subtransactions[1].origin = value],
     result |-> TRUE]

\* if subtransaction.quantity <= 0: take the absolute value and swap.
SwapIfNotPositive(sub) ==
    IF sub.quantity.n <= 0
    THEN swap([sub EXCEPT !.quantity = DecAbs(sub.quantity)])
    ELSE sub

\* TransactionProxyInflowItem.setData.
InflowSetData(transaction, account, new_quantity) ==
    IF isSplit(transaction)
    THEN [transaction |-> transaction, result |-> FALSE]
    ELSE LET held == subtransaction(transaction, account)
             sub  == held.subtransactions[1]
             is_inflow == account = sub.target
             edited ==
                 IF is_inflow
                 THEN IF new_quantity.n >= 0
                      THEN [sub EXCEPT !.quantity = new_quantity]
                      ELSE swap([sub EXCEPT !.quantity = DecAbs(new_quantity)])
                 ELSE IF new_quantity.n <= 0
                      THEN [sub EXCEPT !.quantity =
                               DecAdd(sub.quantity,
                                      DecDiv(DecAbs(new_quantity),
                                             sub.quote_price))]
                      ELSE SwapIfNotPositive(
                               [sub EXCEPT !.quantity =
                                   DecSub(sub.quantity,
                                          DecDiv(new_quantity,
                                                 sub.quote_price))])
         IN [transaction |-> [held EXCEPT !.subtransactions[1] = edited],
             result |-> TRUE]

\* TransactionProxyOutflowItem.setData.
OutflowSetData(transaction, account, value) ==
    IF isSplit(transaction)
    THEN [transaction |-> transaction, result |-> FALSE]
    ELSE LET held == subtransaction(transaction, account)
             sub  == held.subtransactions[1]
             is_outflow == account = sub.origin
             new_quantity == DecDiv(value, sub.quote_price)
             edited ==
                 IF is_outflow
                 THEN IF new_quantity.n >= 0
                      THEN [sub EXCEPT !.quantity = new_quantity]
                      ELSE swap([sub EXCEPT !.quantity = DecAbs(new_quantity)])
                 ELSE IF value.n <= 0
                      THEN [sub EXCEPT !.quantity =
                               DecAdd(sub.quantity, DecAbs(value))]
                      ELSE SwapIfNotPositive(
                               [sub EXCEPT !.quantity =
                                   DecSub(sub.quantity, value)])
         IN [transaction |-> [held EXCEPT !.subtransactions[1] = edited],
             result |-> TRUE]

\* item.setData(value) of the item of a column.
ItemSetData(transaction, account, column, value) ==
    CASE column = "Date"         -> DateSetData(transaction, value)
      [] column = "Comment"      -> CommentSetData(transaction, account, value)
      [] column = "Transference" ->
             TransferenceSetData(transaction, account, value)
      [] column = "Inflow"       -> InflowSetData(transaction, account, value)
      [] column = "Outflow"      -> OutflowSetData(transaction, account, value)

\* An item list of the proxy: the transaction it shows (0: the Transaction()
\* of the insertable row), whether it holds a QPersistentModelIndex of the
\* source model or the Transaction object itself, and the _balance of its
\* balance item.
ItemList(transaction_id, source_index) ==
    [transaction |-> transaction_id, source_index |-> source_index,
     _balance |-> Dec(0)]

\* TransactionProxyBalanceItem.balance.
balance(item_list, account) ==
    DecRound(item_list._balance, AccountPrecision(account))

\* The loop of recalculateBalances from row i.
RECURSIVE RecalculatedFrom(_, _, _, _, _)
RecalculatedFrom(items, i, running, objects, account) ==
    IF i > Len(items) THEN items
    ELSE LET relative == relativeQuantity(objects[items[i].transaction],
                                          account)
             quantity ==
                 IF relative # Dec(0) /\ isInflow(group(account))
                 THEN DecMul(relative, Dec(-1))
                 ELSE relative
             new_balance == DecAdd(running, quantity)
         IN RecalculatedFrom([items EXCEPT ![i]._balance = new_balance],
                             i + 1, new_balance, objects, account)

\* TransactionProxyModel.recalculateBalances (rows are counted from 1).
recalculateBalances(items, first_row, objects, account) ==
    IF first_row < 1 \/ first_row > Len(items) THEN items
    ELSE RecalculatedFrom(items, first_row,
                          IF first_row = 1 THEN Dec(0)
                          ELSE balance(items[first_row - 1], account),
                          objects, account)

\* TransactionProxyModel.filterAcceptsTransaction.
filterAcceptsTransaction(transaction, account) ==
    \E k \in 1..Len(transaction.subtransactions) :
        \/ transaction.subtransactions[k].origin = account
        \/ transaction.subtransactions[k].target = account

\* list.sort(key=date): stable, an item goes after the items of its date.
RECURSIVE SortedByDate(_, _)
SortedByDate(items, objects) ==
    IF items = <<>> THEN <<>>
    ELSE LET first  == Head(items)
             rest   == SortedByDate(Tail(items), objects)
             before == SelectSeq(rest, LAMBDA it :
                           objects[it.transaction].date
                               < objects[first.transaction].date)
             after  == SelectSeq(rest, LAMBDA it :
                           objects[it.transaction].date
                               >= objects[first.transaction].date)
         IN before \o <<first>> \o after

\* The item lists reset() makes of the rows of the source model.
RECURSIVE AcceptedItems(_, _, _)
AcceptedItems(source_rows, objects, account) ==
    IF source_rows = <<>> THEN <<>>
    ELSE (IF filterAcceptsTransaction(objects[Head(source_rows)], account)
          THEN <<ItemList(Head(source_rows), TRUE)>>
          ELSE <<>>)
         \o AcceptedItems(Tail(source_rows), objects, account)

\* The row persist() moves a new transaction to: the first row of a later
\* date among the rows before the insertable one, else where it is.
RECURSIVE SupposedRow(_, _, _, _, _)
SupposedRow(items, item_row, row, transaction_date, objects) ==
    IF item_row >= Len(items) THEN row
    ELSE IF /\ items[item_row].transaction # items[row].transaction
            /\ transaction_date < objects[items[item_row].transaction].date
         THEN item_row
         ELSE SupposedRow(items, item_row + 1, row, transaction_date, objects)

\* items.pop(row); items.insert(transaction_row, item_list).
MoveRow(items, row, transaction_row) ==
    IF transaction_row = row THEN items
    ELSE LET popped == SubSeq(items, 1, row - 1)
                           \o SubSeq(items, row + 1, Len(items))
             to     == IF transaction_row > row THEN transaction_row - 1
                       ELSE transaction_row
         IN SubSeq(popped, 1, to - 1) \o <<items[row]>>
                \o SubSeq(popped, to, Len(popped))


MaxTransactions == 2
MaxProxySteps == 5

\* The ids a stored transaction may take; 0 is the Transaction() of the
\* insertable row, which has none.
TransactionIds == 1..MaxTransactions

\* The ledger files a run may open.
ProxyFile(transactions) ==
    [id \in TransactionIds |->
        IF id <= Len(transactions) THEN transactions[id] ELSE NoTransaction]

ProxyFiles ==
    {ProxyFile(<<Transaction(1, <<Subtransaction("", "Loan", "Wallet",
                                                 Dec(10), Dec(1))>>),
                 Transaction(2, <<Subtransaction("", "Wallet", "Groceries",
                                                 Dec(5), Dec(1))>>)>>),
     ProxyFile(<<Transaction(2, <<Subtransaction("", "Wallet", "Groceries",
                                                 Dec(5), Dec(1)),
                                  Subtransaction("", "Wallet", "Loan",
                                                 Dec(5), Dec(1))>>)>>),
     ProxyFile(<<Transaction(1, <<Subtransaction("", "Wallet", "Yen",
                                                 Dec(2), Frac(5, 2))>>)>>),
     ProxyFile(<<Transaction(1, <<Subtransaction("", "Loan", "Wallet",
                                                 Dec(10), Dec(1))>>),
                 Transaction(1, <<Subtransaction("", "Wallet", "Groceries",
                                                 Dec(5), Dec(1))>>)>>)}

\* The accounts whose transactions are shown, and the accounts of the
\* Transference editor.
ProxyAccounts == {"Wallet", "Loan"}
ProxyTransferenceAccounts == {"Groceries", "Loan"}

\* The values the editors of a column hand to setData.
ProxyEditValues(column) ==
    CASE column = "Date"         -> Dates
      [] column = "Comment"      -> {"rent"}
      [] column = "Transference" -> ProxyTransferenceAccounts
      [] OTHER                   -> {Dec(5), Dec(-5)}

NoObjects == [id \in 0..MaxTransactions |-> NoTransaction]

NoProxyCall == [op |-> "none", result |-> FALSE, beside_draft |-> FALSE]

\* The rows of the source model, by id, of the transactions a file holds.
RECURSIVE SelectedRows(_, _)
SelectedRows(rows, id) ==
    IF id > MaxTransactions THEN <<>>
    ELSE (IF rows[id] # NoTransaction THEN <<id>> ELSE <<>>)
         \o SelectedRows(rows, id + 1)

\* Transaction.hasChanged() or any(sub.hasChanged() ...): the object differs
\* from what the session last flushed, or from Transaction() when it was
\* never flushed.
hasChanged(id) ==
    IF id = 0 THEN identity_map[0] # NewTransaction
    ELSE identity_map[id] # db[id]

\* The rows that show a transaction with changes.
DraftingRows == {r \in 1..Len(proxy_items) :
                    hasChanged(proxy_items[r].transaction)}

\* NOT NULL of subtransaction.origin_id and subtransaction.target_id.
Flushable(transaction) ==
    \A k \in 1..Len(transaction.subtransactions) :
        /\ transaction.subtransactions[k].origin \in Accounts
        /\ transaction.subtransactions[k].target \in Accounts

\* The quantities of a transaction stay within the bound.
WithinMaxQuantity(transaction) ==
    \A k \in 1..Len(transaction.subtransactions) :
        DecLess(transaction.subtransactions[k].quantity, Dec(MaxQuantity + 1))

\* TransactionPage.setSession: TransactionTableModel.select(session) loads
\* the transactions of the file into the session and the source model.
select ==
    /\ proxy_account = NoAccount
    /\ source_model = <<>>
    /\ \E file \in ProxyFiles :
          /\ db' = file
          /\ identity_map' = [id \in 0..MaxTransactions |->
                                 IF id = 0 THEN NoTransaction ELSE file[id]]
          /\ source_model' = SelectedRows(file, 1)
    /\ proxy_call' = [NoProxyCall EXCEPT !.op = "select"]
    /\ UNCHANGED <<proxy_account, proxy_insertable, proxy_items>>
    /\ proxy_steps < MaxProxySteps
    /\ proxy_steps' = proxy_steps + 1
    /\ UNCHANGED varsExceptProxy

\* TransactionPage._onCurrentAccountChanged: setAccount(account), which
\* resets the model, and setInsertable(True).
onCurrentAccountChanged ==
    /\ \E account \in ProxyAccounts :
          /\ account # proxy_account
          /\ proxy_account' = account
          /\ identity_map' = [identity_map EXCEPT ![0] = NewTransaction]
          /\ LET accepted == SortedByDate(
                                 AcceptedItems(source_model, identity_map,
                                               account),
                                 identity_map)
             IN proxy_items' =
                    IF proxy_insertable
                    THEN recalculateBalances(
                             Append(accepted, ItemList(0, FALSE)), 1,
                             identity_map', account)
                    ELSE Append(recalculateBalances(accepted, 1,
                                                    identity_map', account),
                                ItemList(0, FALSE))
    /\ proxy_insertable' = TRUE
    /\ proxy_call' = [NoProxyCall EXCEPT !.op = "setAccount"]
    /\ UNCHANGED <<db, source_model>>
    /\ proxy_steps < MaxProxySteps
    /\ proxy_steps' = proxy_steps + 1
    /\ UNCHANGED varsExceptProxy

\* TransactionProxyModel.setData on a cell the view lets the user edit.
proxySetData ==
    /\ \E row \in 1..Len(proxy_items), column \in Columns :
       \E value \in ProxyEditValues(column) :
          LET id   == proxy_items[row].transaction
              edit == ItemSetData(identity_map[id], proxy_account, column,
                                  value)
          IN /\ column # "Date" => ~isSplit(identity_map[id])
             /\ WithinMaxQuantity(edit.transaction)
             /\ identity_map' = [identity_map EXCEPT ![id] = edit.transaction]
             /\ proxy_items' =
                    IF /\ edit.result
                       /\ column \in {"Transference", "Inflow", "Outflow"}
                    THEN recalculateBalances(proxy_items, row, identity_map',
                                             proxy_account)
                    ELSE proxy_items
             /\ proxy_call' =
                    [op |-> "setData", result |-> edit.result,
                     beside_draft |-> DraftingRows \ {row} # {}]
    /\ UNCHANGED <<db, source_model, proxy_account, proxy_insertable>>
    /\ proxy_steps < MaxProxySteps
    /\ proxy_steps' = proxy_steps + 1
    /\ UNCHANGED varsExceptProxy

\* The smallest id no transaction has yet.
NextId == CHOOSE id \in TransactionIds :
              /\ identity_map[id] = NoTransaction
              /\ \A other \in 1..(id - 1) : identity_map[other] # NoTransaction

\* TransactionProxyModel.persist.
persist ==
    /\ \E row \in 1..Len(proxy_items) :
          LET id          == proxy_items[row].transaction
              transaction == identity_map[id]
              is_insertable_row == row = Len(proxy_items)
          IN /\ Flushable(transaction)
             /\ IF is_insertable_row
                THEN /\ \E free \in TransactionIds :
                            identity_map[free] = NoTransaction
                     /\ LET new_id == NextId
                            transaction_row ==
                                SupposedRow(proxy_items, 1, row,
                                            transaction.date, identity_map)
                            moved == MoveRow(
                                [proxy_items EXCEPT ![row].transaction =
                                                        new_id],
                                row, transaction_row)
                        IN /\ identity_map' =
                                  [identity_map EXCEPT ![new_id] = transaction,
                                                       ![0] = NewTransaction]
                           /\ db' = [db EXCEPT ![new_id] = transaction]
                           /\ source_model' = Append(source_model, new_id)
                           /\ proxy_items' =
                                  recalculateBalances(
                                      Append(moved, ItemList(0, FALSE)), 1,
                                      identity_map', proxy_account)
                ELSE /\ db' = [db EXCEPT ![id] = transaction]
                     /\ proxy_items' =
                            recalculateBalances(proxy_items, 1, identity_map,
                                                proxy_account)
                     /\ UNCHANGED <<identity_map, source_model>>
    /\ proxy_call' = [NoProxyCall EXCEPT !.op = "persist", !.result = TRUE]
    /\ UNCHANGED <<proxy_account, proxy_insertable>>
    /\ proxy_steps < MaxProxySteps
    /\ proxy_steps' = proxy_steps + 1
    /\ UNCHANGED varsExceptProxy

\* TransactionProxyModel.discard.
discard ==
    /\ \E row \in 1..Len(proxy_items) :
          LET id == proxy_items[row].transaction
          IN /\ identity_map' =
                    [identity_map EXCEPT ![id] =
                        IF row = Len(proxy_items)
                        THEN Transaction(Now, <<>>)
                        ELSE db[id]]
             /\ proxy_items' =
                    recalculateBalances(proxy_items, 1, identity_map',
                                        proxy_account)
    /\ proxy_call' = [NoProxyCall EXCEPT !.op = "discard", !.result = TRUE]
    /\ UNCHANGED <<db, source_model, proxy_account, proxy_insertable>>
    /\ proxy_steps < MaxProxySteps
    /\ proxy_steps' = proxy_steps + 1
    /\ UNCHANGED varsExceptProxy

\* TransactionTableModel.delete of the transaction of a row that holds a
\* source index, and the slot _onSourceRowsAboutToBeRemoved it triggers.
delete ==
    /\ \E row \in 1..Len(proxy_items) :
          LET id == proxy_items[row].transaction
          IN /\ proxy_items[row].source_index
             /\ db' = [db EXCEPT ![id] = NoTransaction]
             /\ identity_map' = [identity_map EXCEPT ![id] = NoTransaction]
             /\ source_model' = SelectSeq(source_model,
                                          LAMBDA other : other # id)
             /\ proxy_items' = SubSeq(proxy_items, 1, row - 1)
                                   \o SubSeq(proxy_items, row + 1,
                                             Len(proxy_items))
    /\ proxy_call' = [NoProxyCall EXCEPT !.op = "delete", !.result = TRUE]
    /\ UNCHANGED <<proxy_account, proxy_insertable>>
    /\ proxy_steps < MaxProxySteps
    /\ proxy_steps' = proxy_steps + 1
    /\ UNCHANGED varsExceptProxy

-----------------------------------------------------------------------------
(* The type of a transaction: Transaction.type, TransactionTableItem.type *)

MaxSubtransactions == 2

\* The lists of up to MaxSubtransactions members of a set.
ListsOf(members) == UNION {[1..k -> members] : k \in 0..MaxSubtransactions}

NoTypeCall == [impl |-> "none", object |-> NoTransaction, result |-> "none"]

\* Transaction.type() is called on a Transaction object whose
\* subtransactions have an account, or None, on each side.
CallType ==
    /\ type_call = NoTypeCall
    /\ \E sides \in ListsOf({"Wallet", "Salary", "Loan", "Broker", NoAccount}
                            \X {"Wallet", "Salary", "Loan", "Broker",
                                NoAccount}) :
          LET transaction ==
                  Transaction(Now,
                      [k \in DOMAIN sides |->
                          Subtransaction("", sides[k][1], sides[k][2],
                                         Dec(0), Dec(1))])
          IN type_call' = [impl |-> "sql", object |-> transaction,
                           result |-> type(transaction)]
    /\ UNCHANGED varsExceptType

\* TransactionTableItem.type() is called on an item, which has at least one
\* subtransaction item.
CallItemType ==
    /\ type_call = NoTypeCall
    /\ \E types \in ListsOf({"Cash", "Income", "Liability", Ellipsis}
                            \X {"Cash", "Income", "Liability", Ellipsis}) :
          /\ types # <<>>
          /\ LET item ==
                     TransactionTableItem(1, Now, Dec(0),
                         [k \in DOMAIN types |->
                             SubtransactionItem(<<1, k>>, "", Dec(0),
                                                NoAccount, types[k][1],
                                                NoAccount, types[k][2])])
             IN type_call' = [impl |-> "table", object |-> item,
                              result |-> ItemType(item)]
    /\ UNCHANGED varsExceptType

-----------------------------------------------------------------------------
(* Subtransaction.swap called on a Subtransaction object *)

MaxSwaps == 2

\* Subtransaction(): no comment, no accounts, quantity 0, quote price 1.
NoSwapObject ==
    [created  |-> FALSE,
     original |-> Subtransaction("", NoAccount, NoAccount, Dec(0), Dec(1)),
     current  |-> Subtransaction("", NoAccount, NoAccount, Dec(0), Dec(1)),
     swaps    |-> 0]

\* Subtransaction(origin=..., target=..., quantity=..., quote_price=...).
NewSubtransaction ==
    /\ ~swap_object.created
    /\ \E origin \in {"Wallet", "Yen", "Broker", NoAccount},
          target \in {"Wallet", "Yen", "Broker", NoAccount},
          quantity \in {Dec(0), Dec(10)},
          quote_price \in Prices \cup {Dec(1)} :
          LET sub == Subtransaction("", origin, target, quantity, quote_price)
          IN swap_object' = [created |-> TRUE, original |-> sub,
                             current |-> sub, swaps |-> 0]
    /\ UNCHANGED varsExceptSwap

\* sub.swap()
CallSwap ==
    /\ swap_object.created
    /\ swap_object.swaps < MaxSwaps
    /\ swap_object' = [swap_object EXCEPT !.current = swap(@),
                                          !.swaps = @ + 1]
    /\ UNCHANGED varsExceptSwap

-----------------------------------------------------------------------------
(* The account dialog: AccountEditDialog over AccountTableModel *)

\* Account.parent is None, or the id of the parent account.
NoParent == 0

\* The names typed in the name editor, and the types picked in the type
\* combo (whose first entry is Asset).
Names == {"Wallet", "Savings"}

DialogTypes == {"Asset", "Bank", "Security", "Income"}

MaxAccounts == 3

MaxDialogSteps == 8

\* Account.__init__.
Account(account_type, name, asset, parent) ==
    [name |-> name, type |-> account_type, asset |-> asset,
     parent |-> parent]

\* The row of an Account as Session.flush writes it.
AccountRow(object) ==
    [name |-> object.name, type |-> object.type, asset_id |-> object.asset,
     parent_id |-> object.parent]

\* The accounts of the files the application may open.
AccountFiles ==
    {<<>>,
     <<Account("Asset", "Wallet", "USD", NoParent),
       Account("Bank", "Savings", "USD", 1)>>}

\* The currencies and the securities of a file, in the order of their tables:
\* a file holds no security until the user creates one.
NoAssets == [currencies |-> <<>>, securities |-> <<>>]

SessionAssets ==
    {[currencies |-> <<"USD", "JPY">>, securities |-> <<>>],
     [currencies |-> <<"USD", "JPY">>, securities |-> <<"AAPL">>]}

NoDialog ==
    [open |-> FALSE, account |-> 0,
     new |-> Account("none", "", "None", NoParent),
     combo_type |-> "none", combo_assets |-> <<>>, combo_asset |-> "None",
     confirm_enabled |-> FALSE, filter_group |-> "none", items |-> <<>>,
     hidden |-> {}]

NoDialogCall == [op |-> "none", result |-> "none", steps |-> 0]

\* An exception that leaves a slot ends the application.
DialogRuns ==
    /\ dialog_call.result # "IntegrityError"
    /\ dialog_call.steps < MaxDialogSteps

Returned(op, result) ==
    [op |-> op, result |-> result, steps |-> dialog_call.steps + 1]

\* GroupingProxyModel.reset with AccountTreeProxyModel.filterAcceptsRow and
\* createItemForRow: the rows that get an item, the deferred rows being
\* tried again until their parent has one.
RECURSIVE Placed(_, _, _, _)
Placed(accepted, objects, rows, placed) ==
    LET more == {id \in accepted \ placed :
                    \/ rows[id].parent_id = NoParent
                    \/ objects[id].parent = NoParent
                    \/ objects[id].parent \in placed}
    IN  IF more = {} THEN placed
        ELSE Placed(accepted, objects, rows, placed \cup more)

filterAcceptsRow(filter_group, objects, id) ==
    fromAccountType(objects[id].type) = filter_group

\* The items of the tree after reset(), each with the account of its parent
\* item (NoParent under a group item).
reset(filter_group, objects, rows) ==
    LET accepted == {id \in 1..Len(rows) :
                        filterAcceptsRow(filter_group, objects, id)}
    IN  [id \in Placed(accepted, objects, rows, {}) |->
            IF rows[id].parent_id = NoParent \/ objects[id].parent = NoParent
            THEN NoParent
            ELSE objects[id].parent]

\* reset() returns when no row stays deferred; otherwise its loop never ends.
ResetReturns(filter_group, objects, rows) ==
    \A id \in 1..Len(rows) :
        filterAcceptsRow(filter_group, objects, id) =>
            id \in DOMAIN reset(filter_group, objects, rows)

\* AccountTreeWidget.setAccountHidden.
setAccountHidden(dlg, account, hide) ==
    IF account \notin DOMAIN dlg.items THEN dlg
    ELSE [dlg EXCEPT !.hidden = IF hide THEN @ \cup {account}
                                ELSE @ \ {account}]

\* A row of the tree view can be clicked when neither it nor a row above it
\* is hidden.
RECURSIVE isRowShown(_, _)
isRowShown(dlg, id) ==
    /\ id \notin dlg.hidden
    /\ dlg.items[id] = NoParent \/ isRowShown(dlg, dlg.items[id])

ClickableAccounts(dlg) == {id \in DOMAIN dlg.items : isRowShown(dlg, id)}

\* AccountTreeProxyModel.setFilterGroup; QTreeView forgets its hidden rows
\* when its model is reset.
setFilterGroup(dlg, objects, rows, filter_group) ==
    IF filter_group = dlg.filter_group THEN dlg
    ELSE [dlg EXCEPT !.filter_group = filter_group,
                     !.items = reset(filter_group, objects, rows),
                     !.hidden = {}]

\* An attribute of self._account is assigned: the dialog and the objects
\* after it.
SetAttribute(dlg, objects, attribute, value) ==
    IF dlg.account = 0
    THEN [dialog |-> [dlg EXCEPT !.new[attribute] = value],
          objects |-> objects]
    ELSE [dialog |-> dlg,
          objects |-> [objects EXCEPT ![dlg.account][attribute] = value]]

\* AccountEditDialog._updateAssetCombo: the combo is cleared and filled, and
\* when it is not left empty its first asset becomes current, which
\* AssetCombo._onCurrentIndexChanged and _onCurrentAssetChanged assign to
\* self._account.
_updateAssetCombo(dlg, objects, account_type) ==
    LET assets == IF account_type # "Security"
                  THEN session_assets.currencies
                  ELSE session_assets.securities
        filled == [dlg EXCEPT
                      !.combo_assets = assets,
                      !.combo_asset = IF assets = <<>> THEN "None"
                                      ELSE assets[1],
                      !.confirm_enabled = Len(assets) > 0]
    IN  IF assets = <<>> THEN [dialog |-> filled, objects |-> objects]
        ELSE SetAttribute(filled, objects, "asset", assets[1])

\* AccountEditDialog._onCurrentAccountTypeChanged: the dialog and the objects
\* after it.
TypeChanged(dlg, objects, rows, account_type) ==
    LET filtered == setFilterGroup(dlg, objects, rows,
                                   fromAccountType(account_type))
        after == [filtered EXCEPT !.combo_type = account_type]
        updated == _updateAssetCombo(after, objects, account_type)
    IN  SetAttribute(updated.dialog, updated.objects, "type", account_type)

\* AccountTypeCombo.setCurrentAccountType, which emits
\* currentAccountTypeChanged when the current type changes.
setCurrentAccountType(dlg, objects, rows, account_type) ==
    IF account_type = dlg.combo_type
    THEN [dialog |-> dlg, objects |-> objects]
    ELSE TypeChanged(dlg, objects, rows, account_type)

TypeChangeReturns(dlg, objects, rows, account_type) ==
    \/ account_type = dlg.combo_type
    \/ fromAccountType(account_type) = dlg.filter_group
    \/ ResetReturns(fromAccountType(account_type), objects, rows)

\* The account of the dialog: self._account.
DialogAccount ==
    IF dialog.account = 0 THEN dialog.new
    ELSE account_objects[dialog.account]

\* UniqueConstraint('parent_id', 'name') as SQLite enforces it: rows whose
\* parent_id is NULL are distinct from every row.
_account_name_uc(rows, id, row) ==
    \A other \in (1..Len(rows)) \ {id} :
        \/ row.parent_id = NoParent
        \/ rows[other].parent_id # row.parent_id
        \/ rows[other].name # row.name

\* AccountPage.setSession: AccountTableModel.select.
selectAccounts ==
    /\ dialog_call = NoDialogCall
    /\ \E file \in AccountFiles :
          /\ account_objects' = file
          /\ account_rows' = [id \in DOMAIN file |-> AccountRow(file[id])]
    /\ session_assets' \in SessionAssets
    /\ dialog' = NoDialog
    /\ dialog_call' = Returned("select", "none")
    /\ UNCHANGED varsExceptDialog

\* AccountEditDialog.__init__: _initWidgets fills the asset combo before its
\* signal is connected, and _initAccount takes the current asset.
newDialog ==
    /\ DialogRuns
    /\ dialog_call # NoDialogCall
    /\ ~dialog.open
    /\ ResetReturns("Asset", account_objects, account_rows)
    /\ dialog' = [open |-> TRUE, account |-> 0,
                  new |-> Account("Asset", "", session_assets.currencies[1],
                                  NoParent),
                  combo_type |-> "Asset",
                  combo_assets |-> session_assets.currencies,
                  combo_asset |-> session_assets.currencies[1],
                  confirm_enabled |-> TRUE,
                  filter_group |-> "Asset",
                  items |-> reset("Asset", account_objects, account_rows),
                  hidden |-> {}]
    /\ dialog_call' = Returned("__init__", "none")
    /\ UNCHANGED <<account_rows, account_objects, session_assets>>
    /\ UNCHANGED varsExceptDialog

\* AccountEditDialog.setAccount, on a new dialog or on one that already holds
\* an account: the combos are set while self._account is still the account
\* the dialog held, the row of the account is hidden, then the row of the
\* account the dialog held is shown again.
setAccount ==
    /\ DialogRuns
    /\ dialog.open
    /\ \E account \in 1..Len(account_rows) :
          /\ TypeChangeReturns(dialog, account_objects, account_rows,
                               account_objects[account].type)
          /\ LET typed == setCurrentAccountType(
                              dialog, account_objects, account_rows,
                              account_objects[account].type)
                 updated == _updateAssetCombo(typed.dialog, typed.objects,
                                              account_objects[account].type)
                 hid == setAccountHidden(updated.dialog, account, TRUE)
                 shown == IF dialog.account # 0
                          THEN setAccountHidden(hid, dialog.account, FALSE)
                          ELSE hid
             IN  /\ dialog' = [shown EXCEPT !.account = account]
                 /\ account_objects' = updated.objects
    /\ dialog_call' = Returned("setAccount", "none")
    /\ UNCHANGED <<account_rows, session_assets>>
    /\ UNCHANGED varsExceptDialog

\* AccountEditDialog._onNameEdited.
onNameEdited ==
    /\ DialogRuns
    /\ dialog.open
    /\ \E text \in Names :
          LET named == SetAttribute(dialog, account_objects, "name", text)
          IN  /\ dialog' = [named.dialog EXCEPT
                               !.confirm_enabled = (text # "")]
              /\ account_objects' = named.objects
    /\ dialog_call' = Returned("_onNameEdited", "none")
    /\ UNCHANGED <<account_rows, session_assets>>
    /\ UNCHANGED varsExceptDialog

\* AccountEditDialog._onCurrentAccountTypeChanged, the user picking another
\* type in the combo.
onCurrentAccountTypeChanged ==
    /\ DialogRuns
    /\ dialog.open
    /\ \E account_type \in DialogTypes \ {dialog.combo_type} :
          /\ TypeChangeReturns(dialog, account_objects, account_rows,
                               account_type)
          /\ LET typed == TypeChanged(dialog, account_objects, account_rows,
                                      account_type)
             IN  /\ dialog' = typed.dialog
                 /\ account_objects' = typed.objects
    /\ dialog_call' = Returned("_onCurrentAccountTypeChanged", "none")
    /\ UNCHANGED <<account_rows, session_assets>>
    /\ UNCHANGED varsExceptDialog

\* AccountEditDialog._onCurrentAssetChanged, the user picking another asset
\* in the combo.
onCurrentAssetChanged ==
    /\ DialogRuns
    /\ dialog.open
    /\ \E k \in DOMAIN dialog.combo_assets :
          /\ dialog.combo_assets[k] # dialog.combo_asset
          /\ LET picked == SetAttribute(
                               [dialog EXCEPT
                                   !.combo_asset = dialog.combo_assets[k]],
                               account_objects, "asset",
                               dialog.combo_assets[k])
             IN  /\ dialog' = picked.dialog
                 /\ account_objects' = picked.objects
    /\ dialog_call' = Returned("_onCurrentAssetChanged", "none")
    /\ UNCHANGED <<account_rows, session_assets>>
    /\ UNCHANGED varsExceptDialog

\* AccountEditDialog._onParentTreeClicked on the item of a group (whose
\* account is None) or on the item of an account that can be clicked.
ParentClicked(parent) ==
    LET set == SetAttribute(dialog, account_objects, "parent", parent)
    IN  IF parent = NoParent THEN set
        ELSE setCurrentAccountType(set.dialog, set.objects, account_rows,
                                   set.objects[parent].type)

onParentTreeClicked ==
    /\ DialogRuns
    /\ dialog.open
    /\ \E parent \in {NoParent} \cup ClickableAccounts(dialog) :
          /\ dialog' = ParentClicked(parent).dialog
          /\ account_objects' = ParentClicked(parent).objects
    /\ dialog_call' = Returned("_onParentTreeClicked", "none")
    /\ UNCHANGED <<account_rows, session_assets>>
    /\ UNCHANGED varsExceptDialog

\* AccountEditDialog.accept, called by the Confirm button when it is
\* enabled: AccountTableModel.upsert, which inserts the account when the
\* table does not hold it and updates it otherwise, both flushing the
\* account alone.
accept ==
    /\ DialogRuns
    /\ dialog.open
    /\ dialog.confirm_enabled
    /\ dialog.account = 0 => Len(account_rows) < MaxAccounts
    /\ LET id == IF dialog.account = 0 THEN Len(account_rows) + 1
                 ELSE dialog.account
           row == AccountRow(DialogAccount)
       IN  IF ~_account_name_uc(account_rows, id, row)
           THEN /\ dialog_call' = Returned("accept", "IntegrityError")
                /\ UNCHANGED <<account_rows, account_objects, dialog>>
           ELSE /\ account_rows' =
                       IF dialog.account = 0 THEN Append(account_rows, row)
                       ELSE [account_rows EXCEPT ![id] = row]
                /\ account_objects' =
                       IF dialog.account = 0
                       THEN Append(account_objects, dialog.new)
                       ELSE account_objects
                /\ dialog' = NoDialog
                /\ dialog_call' = Returned("accept", "stored")
    /\ UNCHANGED session_assets
    /\ UNCHANGED varsExceptDialog

\* Account.refresh.
refresh(row) == Account(row.type, row.name, row.asset_id, row.parent_id)

\* AccountEditDialog.reject, the user confirming the pop-up when it is shown.
reject ==
    /\ DialogRuns
    /\ dialog.open
    /\ account_objects' =
           IF /\ dialog.account # 0
              /\ AccountRow(DialogAccount) # account_rows[dialog.account]
           THEN [account_objects EXCEPT
                    ![dialog.account] = refresh(account_rows[dialog.account])]
           ELSE account_objects
    /\ dialog' = NoDialog
    /\ dialog_call' = Returned("reject", "none")
    /\ UNCHANGED <<account_rows, session_assets>>
    /\ UNCHANGED varsExceptDialog

-----------------------------------------------------------------------------
(* Deleting accounts: AccountPage._onDelAccountAction *)

\* The accounts of the file.
DeletableAccounts == {"Wallet", "Salary", "Groceries", "Loan"}

MaxDeleteRows == 2

NoDeleteCall == [op |-> "none", account |-> NoAccount, result |-> FALSE]

\* A transaction between two accounts the application lists is persisted
\* and flushed; its subtransaction row holds origin_id and target_id.
persistSubtransaction ==
    /\ Cardinality(stored_subtransactions) < MaxDeleteRows
    /\ \E origin \in listed_accounts, target \in listed_accounts :
          /\ origin # target
          /\ stored_subtransactions' =
                 stored_subtransactions \cup
                     {[origin_id |-> origin, target_id |-> target]}
          /\ delete_call' = [op |-> "persist", account |-> NoAccount,
                             result |-> TRUE]
    /\ UNCHANGED <<listed_accounts, pending_deletes, stored_accounts>>
    /\ UNCHANGED varsExceptDelete

\* AccountPage._onDelAccountAction, the user answering Yes:
\* AlchemicalTableModel.delete.
deleteAccount ==
    /\ \E account \in DeletableAccounts :
          IF account \notin listed_accounts
          THEN /\ delete_call' = [op |-> "delete", account |-> account,
                                  result |-> FALSE]
               /\ UNCHANGED <<listed_accounts, pending_deletes>>
          ELSE /\ pending_deletes' = pending_deletes \cup {account}
               /\ listed_accounts' = listed_accounts \ {account}
               /\ delete_call' = [op |-> "delete", account |-> account,
                                  result |-> TRUE]
    /\ UNCHANGED <<stored_accounts, stored_subtransactions>>
    /\ UNCHANGED varsExceptDelete

\* MainWindow.commit: the session flushes DELETE FROM account for the
\* accounts to delete. Account has no relationship to the subtransactions
\* that name it and the engine is created without PRAGMA foreign_keys, so
\* SQLite checks no reference and the subtransaction rows stay.
commit ==
    /\ pending_deletes # {}
    /\ stored_accounts' = stored_accounts \ pending_deletes
    /\ pending_deletes' = {}
    /\ delete_call' = [op |-> "commit", account |-> NoAccount,
                       result |-> TRUE]
    /\ UNCHANGED <<listed_accounts, stored_subtransactions>>
    /\ UNCHANGED varsExceptDelete

-----------------------------------------------------------------------------
(* Loading the account tree: GroupingProxyModel.reset *)

MaxLoadAccounts == 3

MaxLoadRows == 1

\* The types of the accounts created, and the filters of the views: one
\* group in a panel of the account page, every group by default.
LoadTypes == {"Bank", "Income"}

LoadFilters == {{"Income"}, AccountGroups}

NoLoad ==
    [pc |-> "none", filter_groups |-> {}, source_row |-> 0,
     deferred_rows |-> <<>>, items |-> <<>>, balances |-> <<>>]

\* No reset() is running on the calling thread: no tree was built yet, the
\* last reset() returned, or rows were inserted into the tree it built.
Idle == load_tree.pc \in {"none", "returned", "inserted"}

\* GroupingProxyModel.createItem twice for one row.
createItemTwice(items, source_row, parent) ==
    items \o <<[account |-> source_row, parent |-> parent],
               [account |-> source_row, parent |-> parent]>>

\* GroupingProxyModel.createItem and appendItem.
createItem(items, source_row, parent) ==
    Append(items, [account |-> source_row, parent |-> parent])

\* AccountTreeProxyModel.itemFromAccount(account) is not None.
HasItem(items, account) ==
    \E i \in DOMAIN items : items[i].account = account

\* AccountTreeProxyModel.createItemForRow: the items after the call, and
\* whether it returned True.
ItemForRow(table, items, source_row) ==
    IF table[source_row].parent_id = NoParent
    THEN [items |-> createItem(items, source_row, NoParent),
          result |-> TRUE]
    ELSE IF HasItem(items, table[source_row].parent_id)
    THEN [items |-> createItem(items, source_row,
                               table[source_row].parent_id),
          result |-> TRUE]
    ELSE [items |-> items, result |-> FALSE]

\* AccountTreeProxyItem.balance of the item of an account.
ItemBalance(rows, account, account_type) ==
    LET _balance == AccountBalance(rows, account) IN
    IF _balance # Dec(0) /\ isInflow(fromAccountType(account_type))
    THEN DecMul(_balance, Dec(-1))
    ELSE _balance

\* The balances the view shows for the items of the tree.
ItemBalances(table, rows, items) ==
    [i \in DOMAIN items |->
        ItemBalance(rows, items[i].account, table[items[i].account].type)]

\* GroupingProxyModel._onRowsInserted for the row appended to the table: an
\* accepted row gets an item if createItemForRow finds the item of its
\* parent, and is left out otherwise.
RowsInserted(tree, table, rows) ==
    IF tree.pc = "none" THEN tree
    ELSE IF fromAccountType(table[Len(table)].type) \notin tree.filter_groups
    THEN [tree EXCEPT !.pc = "inserted"]
    ELSE LET made == ItemForRow(table, tree.items, Len(table)) IN
         [tree EXCEPT !.pc = "inserted",
                      !.items = made.items,
                      !.balances = ItemBalances(table, rows, made.items)]

\* AccountTableModel.insert of an account made in the dialog, under no
\* parent or under an account of any type; the tree of the view follows
\* rowsInserted.
insertAccount ==
    /\ Idle
    /\ Len(load_table) < MaxLoadAccounts
    /\ \E account_type \in LoadTypes,
          parent \in {NoParent} \cup (1..Len(load_table)) :
          /\ load_table' = Append(load_table, [type |-> account_type,
                                               parent_id |-> parent])
          /\ load_tree' = RowsInserted(load_tree, load_table', load_ledger)
    /\ UNCHANGED load_ledger
    /\ UNCHANGED varsExceptLoad

\* A transaction of one subtransaction between two accounts is persisted.
insertSubtransaction ==
    /\ Idle
    /\ Len(load_ledger) < MaxLoadRows
    /\ \E origin \in 1..Len(load_table), target \in 1..Len(load_table) :
          /\ origin # target
          /\ load_ledger' = Append(load_ledger,
                                   [origin |-> origin, target |-> target,
                                    quantity |-> Dec(50),
                                    quote_price |-> Dec(1)])
    /\ UNCHANGED <<load_table, load_tree>>
    /\ UNCHANGED varsExceptLoad

\* GroupingProxyModel.reset up to its first loop: beginResetModel and
\* resetRoot.
beginReset ==
    /\ Idle
    /\ load_table # <<>>
    /\ \E filter_groups \in LoadFilters :
          load_tree' = [pc |-> "rows", filter_groups |-> filter_groups,
                        source_row |-> 1, deferred_rows |-> <<>>,
                        items |-> <<>>, balances |-> <<>>]
    /\ UNCHANGED <<load_table, load_ledger>>
    /\ UNCHANGED varsExceptLoad

\* One turn of the first loop of reset: for source_row in range(rowCount()).
createItemForRow ==
    /\ load_tree.pc = "rows"
    /\ LET source_row == load_tree.source_row IN
       IF source_row > Len(load_table)
       THEN load_tree' = [load_tree EXCEPT !.pc = "deferred"]
       ELSE IF fromAccountType(load_table[source_row].type)
                   \notin load_tree.filter_groups
       THEN load_tree' = [load_tree EXCEPT !.source_row = source_row + 1]
       ELSE LET made == ItemForRow(load_table, load_tree.items, source_row)
            IN  load_tree' =
                    [load_tree EXCEPT
                        !.source_row = source_row + 1,
                        !.items = made.items,
                        !.deferred_rows =
                            IF made.result THEN @
                            ELSE Append(@, source_row)]
    /\ UNCHANGED <<load_table, load_ledger>>
    /\ UNCHANGED varsExceptLoad

\* The head of a turn of the second loop of reset, while True: popleft()
\* takes the first deferred row; when no row is deferred the loop ends, and
\* endResetModel lets the view ask the items for their balances.
popDeferredRow ==
    /\ load_tree.pc = "deferred"
    /\ IF load_tree.deferred_rows = <<>>
       THEN load_tree' =
                [load_tree EXCEPT
                    !.pc = "returned",
                    !.balances = ItemBalances(load_table, load_ledger,
                                              load_tree.items)]
       ELSE load_tree' =
                [load_tree EXCEPT
                    !.pc = "retry",
                    !.source_row = Head(load_tree.deferred_rows),
                    !.deferred_rows = Tail(load_tree.deferred_rows)]
    /\ UNCHANGED <<load_table, load_ledger>>
    /\ UNCHANGED varsExceptLoad

\* The rest of the turn: the row taken is tried again, and deferred again
\* when createItemForRow returns False.
retryDeferredRow ==
    /\ load_tree.pc = "retry"
    /\ LET made == ItemForRow(load_table, load_tree.items,
                              load_tree.source_row)
       IN  load_tree' =
               [load_tree EXCEPT
                   !.pc = "deferred",
                   !.items = made.items,
                   !.deferred_rows =
                       IF made.result THEN @
                       ELSE Append(@, load_tree.source_row)]
    /\ UNCHANGED <<load_table, load_ledger>>
    /\ UNCHANGED varsExceptLoad

-----------------------------------------------------------------------------
(* Editing quantities: the Inflow and Outflow columns and the split editor *)

MaxEditSteps == 4

\* The transactions a file may hold, shown in the table of account Wallet.
EditTransactions ==
    {Transaction(1, <<Subtransaction("", "Wallet", "Groceries",
                                     Dec(5), Dec(1))>>),
     Transaction(1, <<Subtransaction("", "Wallet", "Yen",
                                     Dec(2), Frac(5, 2))>>)}

\* The values SpinBoxDelegate hands to setData: its QDoubleSpinBox ranges
\* from -inf to inf.
SpinBoxValues == {Dec(5), Dec(-5), Dec(2)}

NoEditCall == [op |-> "none", result |-> FALSE, steps |-> 0]

\* SubtransactionTableQuantityItem.setData.
QuantitySetData(sub, value) ==
    IF sub.quantity = value
    THEN [subtransaction |-> sub, result |-> FALSE]
    ELSE [subtransaction |-> [sub EXCEPT !.quantity = value],
          result |-> TRUE]

\* SubtransactionEditDialog.validate: Confirm is enabled.
validate(transaction) ==
    /\ Len(transaction.subtransactions) > 0
    /\ \A k \in 1..Len(transaction.subtransactions) :
          /\ transaction.subtransactions[k].origin # NoAccount
          /\ transaction.subtransactions[k].target # NoAccount

\* The file is opened and its transaction is shown.
selectTransaction ==
    /\ edit_call.op = "none"
    /\ \E transaction \in EditTransactions :
          /\ edit_transaction' = transaction
          /\ edit_stored' = transaction
    /\ edit_call' = [op |-> "select", result |-> TRUE, steps |-> 0]
    /\ UNCHANGED varsExceptEdit

\* TransactionProxyModel.setData on the Inflow or Outflow column of the row.
tableSetData ==
    /\ edit_call.op # "none"
    /\ edit_call.steps < MaxEditSteps
    /\ \E column \in {"Inflow", "Outflow"}, value \in SpinBoxValues :
          LET edit == ItemSetData(edit_transaction, "Wallet", column, value)
          IN /\ WithinMaxQuantity(edit.transaction)
             /\ edit_transaction' = edit.transaction
             /\ edit_call' = [op |-> column, result |-> edit.result,
                              steps |-> edit_call.steps + 1]
    /\ UNCHANGED edit_stored
    /\ UNCHANGED varsExceptEdit

\* SubtransactionTableModel.setData on the Quantity column of a row of the
\* split editor.
quantitySetData ==
    /\ edit_call.op # "none"
    /\ edit_call.steps < MaxEditSteps
    /\ \E row \in 1..Len(edit_transaction.subtransactions),
          value \in SpinBoxValues :
          LET edit == QuantitySetData(edit_transaction.subtransactions[row],
                                      value)
          IN /\ edit_transaction' =
                    [edit_transaction EXCEPT
                        !.subtransactions[row] = edit.subtransaction]
             /\ edit_call' = [op |-> "Quantity", result |-> edit.result,
                              steps |-> edit_call.steps + 1]
    /\ UNCHANGED edit_stored
    /\ UNCHANGED varsExceptEdit

\* TransactionPage._onSplitTransactionButtonClicked once the dialog is
\* confirmed, or the Persist button: persist(current_row).
persistEdited ==
    /\ edit_call.op # "none"
    /\ edit_call.steps < MaxEditSteps
    /\ validate(edit_transaction)
    /\ edit_stored' = edit_transaction
    /\ edit_call' = [op |-> "persist", result |-> TRUE,
                     steps |-> edit_call.steps + 1]
    /\ UNCHANGED edit_transaction
    /\ UNCHANGED varsExceptEdit

-----------------------------------------------------------------------------
(* Specifications *)

\* The program before a file is opened: no call was made, the ledger is empty
\* and the tables show no account.
Init ==
    /\ classify_call = NoCall
    /\ ledger = {}
    /\ quote_call = NoQuoteCall
    /\ book = <<>>
    /\ book_call = NoBookCall
    /\ storage = <<>>
    /\ _account_id = NoAccount
    /\ _items = <<>>
    /\ _draft_item = NoDraft
    /\ _draft_row = -1
    /\ _insertable_item = NoItem
    /\ table_call = NoTableCall
    /\ table_clean = NoSnapshot
    /\ table_steps = 0
    /\ db = [id \in TransactionIds |-> NoTransaction]
    /\ identity_map = NoObjects
    /\ source_model = <<>>
    /\ proxy_account = NoAccount
    /\ proxy_insertable = FALSE
    /\ proxy_items = <<>>
    /\ proxy_call = NoProxyCall
    /\ proxy_steps = 0
    /\ tree_book = <<>>
    /\ tree_call = NoTreeCall
    /\ type_call = NoTypeCall
    /\ swap_object = NoSwapObject
    /\ account_rows = <<>>
    /\ account_objects = <<>>
    /\ dialog = NoDialog
    /\ dialog_call = NoDialogCall
    /\ session_assets = NoAssets
    /\ listed_accounts = DeletableAccounts
    /\ pending_deletes = {}
    /\ stored_accounts = DeletableAccounts
    /\ stored_subtransactions = {}
    /\ delete_call = NoDeleteCall
    /\ load_table = <<>>
    /\ load_ledger = <<>>
    /\ load_tree = NoLoad
    /\ edit_transaction = NoTransaction
    /\ edit_stored = NoTransaction
    /\ edit_call = NoEditCall

NextClassify ==
    \/ CallFromAccountTypes
    \/ CallFromAccountTypesTable

SpecClassify == Init /\ [][NextClassify]_vars

NextQuote ==
    \/ RecordSubtransaction
    \/ CallQuote

SpecQuote == Init /\ [][NextQuote]_vars

NextBook ==
    \/ InsertTransaction
    \/ DeleteTransaction
    \/ QueryBalances

SpecBook == Init /\ [][NextBook]_vars

NextTable ==
    \/ set_engine
    \/ selectAccount
    \/ setData
    \/ persistDraft
    \/ discardDraft

SpecTable == Init /\ [][NextTable]_vars

NextProxy ==
    \/ select
    \/ onCurrentAccountChanged
    \/ proxySetData
    \/ persist
    \/ discard
    \/ delete

SpecProxy == Init /\ [][NextProxy]_vars

NextTree ==
    \/ InsertTreeTransaction
    \/ CallCumulativeBalance

SpecTree == Init /\ [][NextTree]_vars

NextType ==
    \/ CallType
    \/ CallItemType

SpecType == Init /\ [][NextType]_vars

NextSwap ==
    \/ NewSubtransaction
    \/ CallSwap

SpecSwap == Init /\ [][NextSwap]_vars

NextDialog ==
    \/ selectAccounts
    \/ newDialog
    \/ setAccount
    \/ onNameEdited
    \/ onCurrentAccountTypeChanged
    \/ onCurrentAssetChanged
    \/ onParentTreeClicked
    \/ accept
    \/ reject

SpecDialog == Init /\ [][NextDialog]_vars

NextDelete ==
    \/ persistSubtransaction
    \/ deleteAccount
    \/ commit

SpecDelete == Init /\ [][NextDelete]_vars

NextLoad ==
    \/ insertAccount
    \/ insertSubtransaction
    \/ beginReset
    \/ createItemForRow
    \/ popDeferredRow
    \/ retryDeferredRow

NextEdit ==
    \/ selectTransaction
    \/ tableSetData
    \/ quantitySetData
    \/ persistEdited

SpecEdit == Init /\ [][NextEdit]_vars

SpecLoad == Init /\ [][NextLoad]_vars

\* reset() runs on the calling thread: its loops take their next turn.
SpecLoadFair ==
    Init /\ [][NextLoad]_vars /\ WF_vars(createItemForRow)
         /\ WF_vars(popDeferredRow) /\ WF_vars(retryDeferredRow)

-----------------------------------------------------------------------------
(* Claims about the transaction table with a draft row (SpecTable) *)

\* The quantities that enter an account less those that leave it, over the
\* subtransactions of a transaction.
RECURSIVE RawSubs(_, _)
RawSubs(subs, account) ==
    IF subs = <<>> THEN Dec(0)
    ELSE LET s == Head(subs)
             q == process_result_value(s.quantity)
         IN DecAdd(DecSub(IF s.target = account THEN q ELSE Dec(0),
                          IF s.origin = account THEN q ELSE Dec(0)),
                   RawSubs(Tail(subs), account))

\* The raw ledger balance of an account over the stored transactions.
RECURSIVE RawLedgerBalance(_, _)
RawLedgerBalance(stored, account) ==
    IF stored = <<>> THEN Dec(0)
    ELSE DecAdd(RawSubs(Head(stored).subs, account),
                RawLedgerBalance(Tail(stored), account))

\* C1: when the table has loaded the transactions of an account, the balance
\* it displays for the account (the running balance of the last row) is the
\* negation of the account's raw ledger balance if the group of the account
\* is Liability, Income or Equity, and the raw ledger balance itself if the
\* group is Asset or Expense.
C1_BalanceSign ==
    (table_call.op = "selectAccount" /\ _items # <<>>) =>
        _items[Len(_items)].balance =
            IF group(_account_id) \in {"Liability", "Income", "Equity"}
            THEN DecNeg(RawLedgerBalance(storage, _account_id))
            ELSE RawLedgerBalance(storage, _account_id)

\* C3: a discard that follows the edits of one row, the first of which was
\* made with no draft open, leaves the rows (date, subtransactions and
\* running balance of each), the insertable row and the stored ledger as they
\* were before the first edit, and leaves no draft open.
C3_DiscardRestores ==
    (table_call.op = "discardDraft" /\ table_clean.taken) =>
        /\ _items = table_clean.items
        /\ _insertable_item = table_clean.insertable
        /\ storage = table_clean.storage
        /\ ~hasDraft

-----------------------------------------------------------------------------
(* Claims about the proxy model of an account (SpecProxy) *)

\* C2: at most one row of the table holds unsaved changes, and an edit of a
\* row made while another row holds unsaved changes is rejected: setData
\* returns false.
C2_SingleDraft ==
    /\ Cardinality(DraftingRows) <= 1
    /\ (proxy_call.op = "setData" /\ proxy_call.beside_draft) =>
           ~proxy_call.result

\* The signed net contribution of a row to the account shown.
Contribution(row) ==
    LET relative == relativeQuantity(identity_map[proxy_items[row].transaction],
                                     proxy_account)
    IN IF isInflow(group(proxy_account)) THEN DecNeg(relative) ELSE relative

\* C4: after the account is loaded, after a persist and after the deletion of
\* a transaction, the running balance of every row of a transaction of the
\* ledger is the running balance of the row before it (0 for the first row)
\* plus the signed net contribution of the row to the account.
C4_RunningBalances ==
    proxy_call.op \in {"setAccount", "persist", "delete"} =>
        \A row \in 1..Len(proxy_items) :
            proxy_items[row].transaction # 0 =>
                proxy_items[row]._balance =
                    DecAdd(IF row = 1 THEN Dec(0)
                           ELSE proxy_items[row - 1]._balance,
                           Contribution(row))

-----------------------------------------------------------------------------
(* Claims about the quote engine (SpecQuote) *)

Called == quote_call.self # "none"

\* The prices of the latest rows that price self in other directly.
DirectPrices(self, other) ==
    {r.quote_price : r \in LatestRows(QuoteRows(ledger, self, other))}

\* C7: if the ledger yields a direct quote A.quote(B) = p and holds no record
\* pricing B in A, then B.quote(A, two_way=True) returns 1/p.
C7_QuoteInversionLaw ==
    (/\ Called
     /\ quote_call.two_way
     /\ quote_call.self # quote_call.other
     /\ QuoteRows(ledger, quote_call.other, quote_call.self) # {}
     /\ QuoteRows(ledger, quote_call.self, quote_call.other) = {})
    => quote_call.result \in
           {DecDiv(Dec(1), p) :
               p \in DirectPrices(quote_call.other, quote_call.self)}

\* C7 witness: B.quote(A, True) was answered by inverting a recorded A/B
\* price other than 1.
C7_Witness ==
    /\ Called
    /\ quote_call.two_way
    /\ quote_call.self = "JPY" /\ quote_call.other = "USD"
    /\ QuoteRows(ledger, "USD", "JPY") # {}
    /\ QuoteRows(ledger, "JPY", "USD") = {}
    /\ quote_call.result = Frac(2, 5)

\* C8: for two distinct assets a and b with a recorded a/b price, a.quote(b)
\* returns the quote_price of a subtransaction of the latest date among those
\* whose target holds a and whose origin holds b, whatever two_way is and
\* whatever inverted or bridged value the ledger would also yield.
C8_LatestDirectQuote ==
    (/\ Called
     /\ quote_call.self # quote_call.other
     /\ QuoteRows(ledger, quote_call.self, quote_call.other) # {})
    => /\ quote_call.result \in DirectPrices(quote_call.self, quote_call.other)
       /\ \A r \in QuoteRows(ledger, quote_call.self, quote_call.other) :
              r.quote_price = quote_call.result
              \/ \E o \in QuoteRows(ledger, quote_call.self, quote_call.other) :
                     o.quote_price = quote_call.result /\ o.date >= r.date

\* C8 witness: AAPL.quote(JPY) answered with the later of two recorded
\* AAPL/JPY prices while both legs of the USD bridge are recorded too.
C8_Witness ==
    /\ Called
    /\ quote_call.self = "AAPL" /\ quote_call.other = "JPY"
    /\ \E old \in QuoteRows(ledger, "AAPL", "JPY") :
       \E new \in QuoteRows(ledger, "AAPL", "JPY") :
          /\ old.date < new.date
          /\ old.quote_price # new.quote_price
          /\ quote_call.result = new.quote_price
    /\ QuoteRows(ledger, "AAPL", "USD") # {}

\* What C9 says Security.quote returns once the direct resolution has failed:
\* the security leg times the currency leg resolved with two_way=True, rounded
\* to the precision of the target currency; None when a factor is missing.
BridgedQuote(security, currency) ==
    UNION {
        IF p = None THEN {None}
        ELSE IF p = DivisionByZero THEN {DivisionByZero}
        ELSE {IF e = None THEN None
              ELSE IF e = DivisionByZero THEN DivisionByZero
              ELSE DecRound(DecMul(p, e), AssetPrecision(currency)) :
                  e \in quote(ledger, SecurityCurrency(security), currency, TRUE)} :
        p \in AssetQuote(ledger, security, SecurityCurrency(security), TRUE)}

\* C9: for a security s and a currency c for which the direct resolution of
\* s.quote(c) fails, s.quote(c) returns s.quote(s.currency) *
\* s.currency.quote(c, two_way=True) rounded to c.precision, the currency leg
\* resolved with the inversion fallback whatever two_way the caller passed,
\* and no quote when either factor is unavailable.
C9_SecurityBridge ==
    (/\ Called
     /\ ~isCurrency(quote_call.self)
     /\ isCurrency(quote_call.other)
     /\ AssetQuote(ledger, quote_call.self, quote_call.other,
                   quote_call.two_way) = {None})
    => quote_call.result \in BridgedQuote(quote_call.self, quote_call.other)

-----------------------------------------------------------------------------
(* Claims about the account balance (SpecBook) *)

Queried == book_call.op = "balance"

\* Every subtransaction of the table joins two accounts of one asset at
\* quote_price 1.
SameAssetBook ==
    \A i \in 1..Len(book) :
        /\ AccountAsset(book[i].origin) = AccountAsset(book[i].target)
        /\ book[i].quote_price = Dec(1)

RECURSIVE SumOfBalances(_, _)
SumOfBalances(balances, accounts) ==
    IF accounts = {} THEN Dec(0)
    ELSE LET account == CHOOSE a \in accounts : TRUE
         IN DecAdd(balances[account],
                   SumOfBalances(balances, accounts \ {account}))

\* C5: in a ledger made only of subtransactions between accounts of one asset
\* at quote_price 1, each subtransaction subtracts from its origin's raw
\* balance what it adds to its target's, and the raw balances of all accounts
\* sum to zero after any sequence of persist and delete operations.
C5_DoubleEntryConservation ==
    (Queried /\ SameAssetBook)
    => /\ SumOfBalances(book_call.balances, BookAccounts) = Dec(0)
       /\ \A i \in 1..Len(book) :
              DecNeg(AccountBalance(<<book[i]>>, book[i].origin))
                  = AccountBalance(<<book[i]>>, book[i].target)

\* C5 witness: the balances queried after a deletion, on a table that still
\* holds a same-asset subtransaction moving Wallet's balance.
C5_Witness ==
    /\ Queried
    /\ book_call.after = "delete"
    /\ SameAssetBook
    /\ Len(book) > 0
    /\ book_call.balances["Wallet"] # Dec(0)

\* +quantity for each subtransaction whose target is the account and
\* -quantity*quote_price for each whose origin is the account.
RECURSIVE SignedSum(_, _)
SignedSum(rows, account) ==
    IF rows = <<>> THEN Dec(0)
    ELSE LET sub     == Head(rows)
             inflow  == IF sub.target = account THEN sub.quantity ELSE Dec(0)
             outflow == IF sub.origin = account
                        THEN DecMul(sub.quantity, sub.quote_price)
                        ELSE Dec(0)
         IN DecAdd(DecSub(inflow, outflow), SignedSum(Tail(rows), account))

UnitRow(origin, target, quantity) ==
    [origin |-> origin, target |-> target, quantity |-> Dec(quantity),
     quote_price |-> Dec(1)]

\* C6: the raw balance of an account is, over the persisted subtransactions,
\* the sum of +quantity for those whose target is the account plus the sum of
\* -quantity*quote_price for those whose origin is the account; two payments
\* of 50 and 500 out of Wallet at quote 1 give Wallet -550, and 1000 from
\* Salary to Wallet gives Wallet +1000.
C6_RawBalance ==
    Queried
    => /\ \A account \in BookAccounts :
              book_call.balances[account] = SignedSum(book, account)
       /\ book = <<UnitRow("Wallet", "Groceries", 50),
                   UnitRow("Wallet", "Groceries", 500)>>
              => book_call.balances["Wallet"] = Dec(-550)
       /\ book = <<UnitRow("Salary", "Wallet", 1000)>>
              => book_call.balances["Wallet"] = Dec(1000)

\* C6 witness: Wallet's balance queried on a table where Wallet pays into a
\* Yen account at a quote price of 2.5 and receives 1000 from Salary.
C6_Witness ==
    /\ Queried
    /\ \E i \in 1..Len(book) :
          /\ book[i].origin = "Wallet"
          /\ book[i].target = "Yen"
          /\ book[i].quantity = Dec(50)
          /\ book[i].quote_price = Frac(5, 2)
    /\ \E j \in 1..Len(book) : book[j] = UnitRow("Salary", "Wallet", 1000)
    /\ book_call.balances["Wallet"] = Dec(875)

-----------------------------------------------------------------------------
(* Claims about the classifier (SpecClassify) *)

\* C10: the classifier is total over the 11 x 11 pairs of account types: it
\* returns a TransactionType for every pair without raising, and Undefined
\* for the pairs no rule covers (such as any pair whose origin is Receivable,
\* Payable or Expense).
C10_ClassifierTotal ==
    classify_call.impl # "none"
    => /\ classify_call.result \in TransactionTypes
       /\ classify_call.origin_type \in {"Receivable", "Payable", "Expense"}
              => classify_call.result = "Undefined"

\* C11: the classifier returns Opening for origin Equity with any target,
\* Income for origin Income with any target, Deposit for Cash -> Bank,
\* Withdrawal for Bank -> Cash, Investment for Asset/Cash/Bank -> Security,
\* Divestment for Security -> Asset/Cash/Bank, Repayment for
\* Asset/Cash/Bank -> Liability/CreditCard, CreditUsage for
\* Liability -> Asset/Cash/Bank/Security and CreditCardPayment for
\* CreditCard -> Asset/Cash/Bank/Security.
C11_ClassifierRules ==
    LET o == classify_call.origin_type
        t == classify_call.target_type
        r == classify_call.result
        NonSecurityAsset == {"Asset", "Cash", "Bank"}
    IN  classify_call.impl # "none" =>
            /\ o = "Equity" => r = "Opening"
            /\ o = "Income" => r = "Income"
            /\ (o = "Cash" /\ t = "Bank") => r = "Deposit"
            /\ (o = "Bank" /\ t = "Cash") => r = "Withdrawal"
            /\ (o \in NonSecurityAsset /\ t = "Security") => r = "Investment"
            /\ (o = "Security" /\ t \in NonSecurityAsset) => r = "Divestment"
            /\ (o \in NonSecurityAsset /\ t \in {"Liability", "CreditCard"})
                   => r = "Repayment"
            /\ (o = "Liability" /\ t \in NonSecurityAsset \cup {"Security"})
                   => r = "CreditUsage"
            /\ (o = "CreditCard" /\ t \in NonSecurityAsset \cup {"Security"})
                   => r = "CreditCardPayment"

-----------------------------------------------------------------------------
(* Claims about the type of a transaction (SpecType) *)

\* C12: the type of a transaction is Split whenever it owns more than one
\* subtransaction, whatever the account types of its members, and otherwise
\* it is exactly what the classifier returns for the origin and target
\* account types of its single subtransaction (Salary, an Income account, to
\* Wallet, a Cash account, is Income).
C12_TransactionType ==
    /\ type_call.impl = "sql" =>
          LET subtransactions == type_call.object.subtransactions
              sub == subtransactions[1]
          IN  /\ Len(subtransactions) > 1 => type_call.result = "Split"
              /\ (/\ Len(subtransactions) = 1
                  /\ sub.origin \in Accounts
                  /\ sub.target \in Accounts) =>
                     type_call.result =
                         fromAccountTypes(AccountTypeOf(sub.origin),
                                          AccountTypeOf(sub.target))
    /\ type_call.impl = "table" =>
          LET sub_items == type_call.object.subs
          IN  /\ Len(sub_items) > 1 => type_call.result = "Split"
              /\ Len(sub_items) = 1 =>
                     type_call.result =
                         fromAccountTypesTable(sub_items[1].origin_type,
                                               sub_items[1].target_type)

C12_Witness ==
    /\ type_call.impl = "sql"
    /\ Len(type_call.object.subtransactions) = 1
    /\ type_call.object.subtransactions[1].origin = "Salary"
    /\ type_call.object.subtransactions[1].target = "Wallet"
    /\ type_call.result = "Income"

-----------------------------------------------------------------------------
(* Claims about the cumulative balance (SpecTree) *)

\* C13: when no quote is resolvable from the asset of an account to the asset
\* in which a cumulative or total balance is reported, the account's own
\* balance contributes exactly zero: it is not added unconverted and no error
\* is raised, and the accounts whose quotes resolve still contribute.
C13_UnresolvedQuoteIsZero ==
    tree_call.account # "none" =>
        tree_call.balances =
            CumulativeWith(tree_book, tree_call.account, tree_call.currency,
                           TRUE)

\* The account and its descendants, read off the parent relation.
RECURSIVE IsAncestor(_, _)
IsAncestor(ancestor, account) ==
    LET parent == AccountParent(account)
    IN  parent # "None" /\ (parent = ancestor \/ IsAncestor(ancestor, parent))

Subtree(account) ==
    {account} \cup {other \in Accounts : IsAncestor(account, other)}

\* The balance of the account with the sign of its group applied once.
SignAdjusted(rows, account) ==
    IF group(account) \in {"Liability", "Income", "Equity"}
    THEN DecNeg(AccountBalance(rows, account))
    ELSE AccountBalance(rows, account)

\* The asset a call reports in: its currency, else the asset of its account.
ReportingAsset ==
    IF tree_call.currency # NoCurrency THEN tree_call.currency
    ELSE AccountAsset(tree_call.account)

TwoWayQuotes(rows, account, asset) ==
    quote({rows[i] : i \in DOMAIN rows}, AccountAsset(account), asset, TRUE)

\* Every account of the subtree with a balance has a quote to the asset.
Resolvable(rows, accounts, asset) ==
    \A account \in accounts :
        AccountBalance(rows, account) # Dec(0) =>
            None \notin TwoWayQuotes(rows, account, asset)

\* The sums of the sign-adjusted balances of the accounts, each converted
\* with a two-way quote and counted once.
RECURSIVE ConvertedSums(_, _, _, _)
ConvertedSums(rows, accounts, asset, sums) ==
    IF accounts = {} THEN sums
    ELSE LET account == CHOOSE a \in accounts : TRUE
             adjusted == SignAdjusted(rows, account)
             converted ==
                 IF adjusted = Dec(0) THEN {adjusted}
                 ELSE {DecMul(adjusted, quote_price) :
                          quote_price \in TwoWayQuotes(rows, account, asset)}
         IN ConvertedSums(rows, accounts \ {account}, asset,
                {DecAdd(sum, c) : sum \in sums, c \in converted})

\* The sum of the displayed balances of the accounts, each counted once.
RECURSIVE DisplayedSum(_, _)
DisplayedSum(rows, accounts) ==
    IF accounts = {} THEN Dec(0)
    ELSE LET account == CHOOSE a \in accounts : TRUE
         IN DecAdd(SignAdjusted(rows, account),
                   DisplayedSum(rows, accounts \ {account}))

-----------------------------------------------------------------------------
(* Claims about the first edit of a row (SpecTable) *)

\* The item the table shows in a row before the edit.
RowItem(row) == IF row > Len(_items) THEN _insertable_item ELSE _items[row]

\* The edit enters a value that differs from what the row holds.
EditChanges(row, column, value) ==
    setEditRoleData(RowItem(row), _account_id, column, value).item
        # RowItem(row)

\* C15: starting from Clean, after the first edit on a row the model is
\* Drafting, with that row as the draft, if and only if the edit changed a
\* value of the row: re-entering the current value leaves the model Clean
\* with no storage write, and an edit that changes the date, comment,
\* transference account, inflow or outflow leaves it Drafting, with the
\* original row unchanged in the collection.
C15_FirstEdit ==
    [][\A row \in 1..(Len(_items) + 1), column \in Columns :
          \A value \in EditValues(column) :
              (~hasDraft /\ SetDataOn(row, column, value)) =>
                  /\ _items' = _items
                  /\ storage' = storage
                  /\ IF EditChanges(row, column, value)
                     THEN _draft_item'.ref # "None" /\ _draft_row' = row
                     ELSE _draft_item'.ref = "None"]_vars

-----------------------------------------------------------------------------
(* Claims about Subtransaction.swap (SpecSwap) *)

-----------------------------------------------------------------------------
(* Claims about the quote price of a subtransaction (SpecProxy) *)

\* C18: after any sequence of edits made through the transaction table,
\* every subtransaction whose origin and target accounts hold the same asset
\* has quote_price equal to 1.
C18_SameAssetUnitQuote ==
    \A id \in DOMAIN identity_map :
        \A k \in DOMAIN identity_map[id].subtransactions :
            LET sub == identity_map[id].subtransactions[k]
            IN  (/\ sub.origin \in Accounts
                 /\ sub.target \in Accounts
                 /\ AccountAsset(sub.origin) = AccountAsset(sub.target)) =>
                    sub.quote_price = Dec(1)

-----------------------------------------------------------------------------
(* Claims about the accounts the dialog stores (SpecDialog) *)

RECURSIVE HasAncestor(_, _, _, _)
HasAncestor(rows, id, ancestor, depth) ==
    /\ depth > 0
    /\ rows[id].parent_id # NoParent
    /\ \/ rows[id].parent_id = ancestor
       \/ HasAncestor(rows, rows[id].parent_id, ancestor, depth - 1)

C20_UniqueSiblingNames ==
    \A a \in DOMAIN account_rows, b \in DOMAIN account_rows :
        (/\ a # b
         /\ account_rows[a].parent_id = account_rows[b].parent_id
         /\ \/ account_rows[a].parent_id # NoParent
            \/ fromAccountType(account_rows[a].type) =
                   fromAccountType(account_rows[b].type)) =>
            account_rows[a].name # account_rows[b].name

\* C21: every account stored after any sequence of edits in the account
\* dialog followed by confirm has an asset that is a Security if its type is
\* Security and a Currency otherwise.
C21_AssetMatchesType ==
    \A id \in DOMAIN account_rows :
        IF account_rows[id].type = "Security"
        THEN account_rows[id].asset_id \in Assets
             /\ ~isCurrency(account_rows[id].asset_id)
        ELSE isCurrency(account_rows[id].asset_id)

-----------------------------------------------------------------------------
(* Claims about the transactions the session has flushed (SpecProxy) *)

\* C22: every transaction held in storage after any sequence of edit, persist
\* and delete operations owns at least one subtransaction; persisting the
\* insertable row never stores a transaction with zero subtransactions.
C22_NonEmptyTransactions ==
    \A id \in DOMAIN db :
        db[id] # NoTransaction => db[id].subtransactions # <<>>

-----------------------------------------------------------------------------
(* Claims about deleting accounts (SpecDelete) *)

\* C23: after any sequence of account deletions, the origin and the target
\* of every stored subtransaction still refer to existing accounts: deleting
\* an account that subtransactions refer to is rejected or removes them.
C23_ReferencesExist ==
    \A sub \in stored_subtransactions :
        /\ sub.origin_id \in stored_accounts
        /\ sub.target_id \in stored_accounts

-----------------------------------------------------------------------------
(* Claims about the account tree a view loads (SpecLoad, SpecLoadFair) *)

ItemsOf(account) ==
    {i \in DOMAIN load_tree.items : load_tree.items[i].account = account}

HasSubtransactions(account) ==
    \E k \in DOMAIN load_ledger :
        load_ledger[k].origin = account \/ load_ledger[k].target = account

C30_ResetTerminates ==
    (load_tree.pc \in {"rows", "deferred", "retry"})
        ~> (load_tree.pc = "returned")

-----------------------------------------------------------------------------
(* Claims about quote() of an asset in itself (SpecQuote) *)

-----------------------------------------------------------------------------
(* Claims about edited quantities (SpecEdit) *)

\* C26: after any sequence of edits through the transaction table (inflow,
\* outflow, including negative or netting values) and the split editor
\* (quantity), every subtransaction's quantity is greater than or equal to 0,
\* in the object edited and in the transaction stored.
C26_QuantityNotNegative ==
    /\ \A k \in 1..Len(edit_transaction.subtransactions) :
          edit_transaction.subtransactions[k].quantity.n >= 0
    /\ \A k \in 1..Len(edit_stored.subtransactions) :
          edit_stored.subtransactions[k].quantity.n >= 0

-----------------------------------------------------------------------------
(* Claims about persist and the order of the rows (SpecProxy) *)

\* The transactions of the rows of the table before the insertable row, as
\* the table holds them.
ShownTransactions ==
    [i \in 1..(Len(proxy_items) - 1) |->
        identity_map[proxy_items[i].transaction]]

\* The transactions of the rows a reset() of the table makes from storage.
ReloadedTransactions ==
    LET accepted == SortedByDate(AcceptedItems(source_model, db,
                                               proxy_account), db)
    IN [i \in 1..Len(accepted) |-> db[accepted[i].transaction]]

\* C27: after every persist the model is Clean (no row holds unsaved
\* changes), and storage holds exactly the date and subtransaction fields of
\* the transactions shown, so that re-loading the account's transactions from
\* storage yields the same rows as the in-memory collection.
C27_PersistReloads ==
    proxy_call.op = "persist" =>
        /\ DraftingRows = {}
        /\ ShownTransactions = ReloadedTransactions

\* No two neighbouring rows before the insertable row have dates in
\* descending order.
AscendingDates ==
    \A i \in 1..(Len(proxy_items) - 2) :
        identity_map[proxy_items[i].transaction].date
            <= identity_map[proxy_items[i + 1].transaction].date

\* C28: after load and after every persist the rows of the account's
\* transaction table, excluding the trailing insertable row, are in ascending
\* order of transaction date (stated for tables without unsaved changes).
C28_AscendingDates ==
    (proxy_call.op \in {"setAccount", "persist"} /\ DraftingRows = {}) =>
        AscendingDates

-----------------------------------------------------------------------------
(* Claims about the look-ups of quote() (SpecQuote) *)

\* A run of quote(): its result, the recorded quotes the result is derived
\* from, and the number of queries it executed.
Run(result, used, lookups) ==
    [result |-> result, used |-> used, lookups |-> lookups]

RECURSIVE QuoteRuns(_, _, _, _)

\* The runs of Asset.quote.
AssetQuoteRuns(rows, self, other, two_way) ==
    IF self = other THEN {Run(Dec(1), {}, 0)}
    ELSE LET matching == QuoteRows(rows, self, other) IN
         IF matching # {}
         THEN {Run(r.quote_price, {r}, 1) : r \in LatestRows(matching)}
         ELSE IF two_way
              THEN {IF reverse.result = None
                    THEN Run(None, {}, 1 + reverse.lookups)
                    ELSE IF reverse.result = DivisionByZero
                    THEN Run(DivisionByZero, {}, 1 + reverse.lookups)
                    ELSE Run(DecDiv(Dec(1), reverse.result), reverse.used,
                             1 + reverse.lookups) :
                        reverse \in QuoteRuns(rows, other, self, FALSE)}
              ELSE {Run(None, {}, 1)}

\* The runs of Security.quote.
SecurityQuoteRuns(rows, self, other, two_way) ==
    UNION {
        IF direct.result # None THEN {direct}
        ELSE IF ~isCurrency(other) THEN {direct}
        ELSE UNION {
            IF quote_price.result \in {None, DivisionByZero}
            THEN {Run(quote_price.result, {},
                      direct.lookups + quote_price.lookups)}
            ELSE {IF exchange_rate.result \in {None, DivisionByZero}
                  THEN Run(exchange_rate.result, {},
                           direct.lookups + quote_price.lookups
                               + exchange_rate.lookups)
                  ELSE Run(DecRound(DecMul(quote_price.result,
                                           exchange_rate.result),
                                    AssetPrecision(other)),
                           quote_price.used \cup exchange_rate.used,
                           direct.lookups + quote_price.lookups
                               + exchange_rate.lookups) :
                      exchange_rate \in
                          QuoteRuns(rows, SecurityCurrency(self), other,
                                    ExchangeRateTwoWay(two_way))} :
            quote_price \in
                AssetQuoteRuns(rows, self, SecurityCurrency(self), TRUE)} :
        direct \in AssetQuoteRuns(rows, self, other, two_way)}

\* The runs of asset.quote(other, two_way).
QuoteRuns(rows, self, other, two_way) ==
    IF isCurrency(self) THEN AssetQuoteRuns(rows, self, other, two_way)
    ELSE SecurityQuoteRuns(rows, self, other, two_way)

\* The recorded quote is between a security and a currency.
IsSecurityLeg(r) ==
    ~isCurrency(AccountAsset(r.origin)) \/ ~isCurrency(AccountAsset(r.target))

\* The look-ups of the runs are bounded, and a value is derived from at most
\* two recorded quotes, one of them a security/currency leg.
BoundedRuns(runs) ==
    \A run \in runs :
        /\ run.lookups <= 6
        /\ Cardinality(run.used) <= 2
        /\ Cardinality(run.used) = 2 =>
              Cardinality({r \in run.used : IsSecurityLeg(r)}) = 1

\* C29: every quote() call terminates after a bounded number of ledger
\* look-ups (at most 6), and any value it returns is derived from at most two
\* recorded quotes, one security/currency leg and one currency/currency leg:
\* there is at most one level of currency bridging.  Stated for every call
\* on every ledger (a ledger is reached before any call is recorded on it),
\* and for the call recorded.
C29_BoundedBridging ==
    /\ quote_call = NoQuoteCall =>
          \A self \in Assets, other \in Assets, two_way \in BOOLEAN :
              LET runs == QuoteRuns(ledger, self, other, two_way) IN
              /\ {run.result : run \in runs}
                     = quote(ledger, self, other, two_way)
              /\ BoundedRuns(runs)
    /\ quote_call # NoQuoteCall =>
          LET runs == QuoteRuns(ledger, quote_call.self, quote_call.other,
                                quote_call.two_way) IN
          /\ quote_call.result \in {run.result : run \in runs}
          /\ BoundedRuns(runs)

\* A quote of the security in the other currency was resolved over the
\* bridge, from two recorded quotes and after six look-ups.
C29_Witness ==
    /\ quote_call # NoQuoteCall
    /\ ~isCurrency(quote_call.self)
    /\ quote_call.result \notin {None, DivisionByZero}
    /\ \E run \in QuoteRuns(ledger, quote_call.self, quote_call.other,
                            quote_call.two_way) :
          /\ run.result = quote_call.result
          /\ Cardinality(run.used) = 2
          /\ run.lookups = 6

=============================================================================
